---- MODULE Spec2Model ----
(***************************************************************************)
(* go-lucene: the shift/reduce parser (parse.go), its reducers             *)
(* (pkg/lucene/reduce), the expression model, validator and JSON codec     *)
(* (pkg/lucene/expr) and the SQL render framework with the PostgreSQL      *)
(* driver (pkg/driver), as a state machine over one query.                 *)
(*                                                                         *)
(* Strings are sequences of one-character strings.  Every value that can   *)
(* sit in an Expression field or on the parser stack is a record with a    *)
(* `kind` field:                                                           *)
(*   "nil"                      Go nil                                     *)
(*   "str" (s)  "col" (s)       string / expr.Column                       *)
(*   "int" (n)                  int                                        *)
(*   "float" (m)                float64, m = value * 1000                  *)
(*   "bool" (b)                 bool                                       *)
(*   "expr" (op,left,right,boostPower,fuzzyDistance)   *expr.Expression    *)
(*   "list" (items)             []*expr.Expression                         *)
(*   "boundary" (min,max,inclusive)   *expr.RangeBoundary                  *)
(*   "tok" (typ,val)            lex.Token                                  *)
(*   "panic"                    a Go run-time panic                        *)
(***************************************************************************)
EXTENDS Integers, Sequences, FiniteSets, TLC

VARIABLES source, lexer, input, defaultField, pos, stack, nonTerminals, pc, result,
          sql, psql, roundTrip, decoded

vars == <<source, lexer, input, defaultField, pos, stack, nonTerminals, pc, result,
          sql, psql, roundTrip, decoded>>

(***************************************************************************)
(* Strings                                                                 *)
(***************************************************************************)
Digits == <<"0", "1", "2", "3", "4", "5", "6", "7", "8", "9">>

IsDigit(c) == \E i \in 1..10 : Digits[i] = c

DigitVal(c) == (CHOOSE i \in 1..10 : Digits[i] = c) - 1

Contains(s, c) == \E i \in 1..Len(s) : s[i] = c

ContainsAny(s, cs) == \E i \in 1..Len(s) : s[i] \in cs

RECURSIVE ReplaceAll(_, _, _)
\* strings.ReplaceAll for a one-character pattern
ReplaceAll(s, c, by) ==
    IF s = <<>> THEN <<>>
    ELSE (IF Head(s) = c THEN by ELSE <<Head(s)>>) \o ReplaceAll(Tail(s), c, by)

RECURSIVE Join(_, _)
\* strings.Join
Join(strs, sep) ==
    IF strs = <<>> THEN <<>>
    ELSE IF Len(strs) = 1 THEN strs[1]
    ELSE strs[1] \o sep \o Join(Tail(strs), sep)

RECURSIVE Split(_, _)
\* strings.Split for a one-character separator
Split(s, c) ==
    IF ~Contains(s, c) THEN <<s>>
    ELSE LET i == CHOOSE k \in 1..Len(s) :
                      s[k] = c /\ \A j \in 1..(k - 1) : s[j] # c
         IN  <<SubSeq(s, 1, i - 1)>> \o Split(SubSeq(s, i + 1, Len(s)), c)

RECURSIVE Trim(_, _)
\* strings.Trim for a one-character cutset
Trim(s, c) ==
    IF s = <<>> THEN s
    ELSE IF Head(s) = c THEN Trim(Tail(s), c)
    ELSE IF s[Len(s)] = c THEN Trim(SubSeq(s, 1, Len(s) - 1), c)
    ELSE s

RECURSIVE DigitsVal(_)
DigitsVal(s) ==
    IF s = <<>> THEN 0 ELSE DigitsVal(SubSeq(s, 1, Len(s) - 1)) * 10 + DigitVal(s[Len(s)])

\* strconv.Atoi: an optional sign and decimal digits
Atoi(s) ==
    LET signed == s # <<>> /\ s[1] \in {"-", "+"}
        body   == IF signed THEN Tail(s) ELSE s
    IN  IF body # <<>> /\ \A i \in 1..Len(body) : IsDigit(body[i])
        THEN [ok |-> TRUE,
              n  |-> IF signed /\ s[1] = "-" THEN 0 - DigitsVal(body) ELSE DigitsVal(body)]
        ELSE [ok |-> FALSE, n |-> 0]

\* strconv.ParseFloat(s, 64) on decimal notation (sign, digits, one point);
\* the value is kept in thousandths.
ParseFloat(s) ==
    LET signed == s # <<>> /\ s[1] \in {"-", "+"}
        value(parts, fp) ==
            IF /\ Len(parts) <= 2
               /\ (parts[1] # <<>> \/ fp # <<>>)
               /\ \A i \in 1..Len(parts[1]) : IsDigit(parts[1][i])
               /\ \A i \in 1..Len(fp) : IsDigit(fp[i])
            THEN [ok |-> TRUE,
                  m  |-> (IF signed /\ s[1] = "-" THEN 0 - 1 ELSE 1)
                         * (DigitsVal(parts[1]) * 1000
                            + DigitsVal(SubSeq(fp \o <<"0", "0", "0">>, 1, 3)))]
            ELSE [ok |-> FALSE, m |-> 0]
        split(parts) == value(parts, IF Len(parts) = 2 THEN parts[2] ELSE <<>>)
    IN  split(Split(IF signed THEN Tail(s) ELSE s, "."))

RECURSIVE NatStr(_)
NatStr(n) == IF n < 10 THEN <<Digits[n + 1]>> ELSE NatStr(n \div 10) \o <<Digits[(n % 10) + 1]>>

\* fmt %d / %v of an int
Itoa(n) == IF n < 0 THEN <<"-">> \o NatStr(0 - n) ELSE NatStr(n)

RECURSIVE TrimZeros(_)
TrimZeros(s) == IF s # <<>> /\ s[Len(s)] = "0" THEN TrimZeros(SubSeq(s, 1, Len(s) - 1)) ELSE s

Pad(s, w) == IF Len(s) >= w THEN s ELSE SubSeq(<<"0", "0", "0">>, 1, w - Len(s)) \o s

\* fmt %v of a float64 (shortest decimal form; a whole value prints without a point)
FormatFloat(m) ==
    LET a    == IF m < 0 THEN 0 - m ELSE m
        frac == TrimZeros(Pad(NatStr(a % 1000), 3))
    IN  (IF m < 0 THEN <<"-">> ELSE <<>>) \o NatStr(a \div 1000)
        \o (IF frac = <<>> THEN <<>> ELSE <<".">> \o frac)

\* fmt %.{d}f of a float64, d in 1..2
FormatFixed(m, d) ==
    LET a     == IF m < 0 THEN 0 - m ELSE m
        unit  == IF d = 1 THEN 100 ELSE 10
        q     == (a + (unit \div 2)) \div unit
        scale == 1000 \div unit
    IN  (IF m < 0 /\ q # 0 THEN <<"-">> ELSE <<>>) \o NatStr(q \div scale)
        \o <<".">> \o Pad(NatStr(q % scale), d)

(***************************************************************************)
(* Values                                                                  *)
(***************************************************************************)
Nil == [kind |-> "nil"]

Panic == [kind |-> "panic"]

StrV(s) == [kind |-> "str", s |-> s]

Column(s) == [kind |-> "col", s |-> s]

IntV(n) == [kind |-> "int", n |-> n]

FloatV(m) == [kind |-> "float", m |-> m]

BoolV(b) == [kind |-> "bool", b |-> b]

Tok(typ, val) == [kind |-> "tok", typ |-> typ, val |-> val]

IsExpr(in) == in.kind = "expr"

isString(in) == in.kind = "str"

isColumn(in) == in.kind = "col"

isInt(in) == in.kind = "int"

isFloat(in) == in.kind = "float"

isNum(in) == isInt(in) \/ isFloat(in)

isBool(in) == in.kind = "bool"

isLiteral(in) == isString(in) \/ isNum(in) \/ isBool(in) \/ isColumn(in)

(***************************************************************************)
(* expr: the Expression constructors                                       *)
(***************************************************************************)
\* expr.empty(): the zero Expression with its operator-specific defaults
empty ==
    [kind |-> "expr", op |-> "Undefined", left |-> Nil, right |-> Nil,
     boostPower |-> 1000, fuzzyDistance |-> 1]

Leaf(op, v) == [empty EXCEPT !.op = op, !.left = v]

Lit(in) == Leaf("Literal", in)

WILD(in) == Leaf("Wild", in)

REGEXP(in) == Leaf("Regexp", in)

\* isStringlike: a string, or an expression whose Left is a string
isStringlike(in) == isString(in) \/ (IsExpr(in) /\ isString(in.left))

operatesOnColumn(op) ==
    op \in {"Equals", "Range", "Greater", "Less", "GreaterEq", "LessEq", "In", "Like"}

wrapInColumn(in) ==
    IF isString(in) THEN Lit(Column(in.s))
    ELSE IF IsExpr(in) /\ isString(in.left) THEN Lit(Column(in.left.s))
    ELSE in

shouldUseLikeOperator(in) == IsExpr(in) /\ in.op \in {"Wild", "Regexp"}

\* literalToExpr: s[0] on the empty string is an index out of range
literalToExpr(in) ==
    IF IsExpr(in) THEN in
    ELSE IF ~isString(in) THEN Lit(in)
    ELSE IF in.s = <<>> THEN Panic
    ELSE IF in.s[1] = "/" /\ in.s[Len(in.s)] = "/" THEN REGEXP(in)
    ELSE IF ContainsAny(in.s, {"*", "?"}) THEN WILD(in)
    ELSE Lit(in)

\* expr.Expr(left, op, right...): right is the tuple of the variadic arguments
Expr(left, op, right) ==
    LET build(e) ==
            IF op = "Equals" /\ Len(right) = 1 /\ shouldUseLikeOperator(right[1])
            THEN [e EXCEPT !.op = "Like", !.right = right[1]]
            ELSE IF op = "Boost"
            THEN [e EXCEPT !.boostPower =
                     IF Len(right) = 1 /\ isFloat(right[1]) THEN right[1].m ELSE 1000]
            ELSE IF op = "Fuzzy"
            THEN [e EXCEPT !.fuzzyDistance =
                     IF Len(right) = 1 /\ isInt(right[1]) THEN right[1].n ELSE 1]
            ELSE IF op = "Range" /\ Len(right) = 3 /\ isBool(right[3])
            THEN LET boundary(mn, mx) ==
                         IF mn = Panic \/ mx = Panic THEN Panic
                         ELSE [e EXCEPT !.right =
                                  [kind |-> "boundary", min |-> mn, max |-> mx,
                                   inclusive |-> right[3].b]]
                 IN  boundary(literalToExpr(right[1]), literalToExpr(right[2]))
            ELSE IF op = "In" /\ Len(right) > 0
            THEN IF IsExpr(right[1]) THEN [e EXCEPT !.right = right[1]] ELSE Panic
            ELSE IF op = "List"
            THEN IF left.kind = "list" THEN [e EXCEPT !.left = left] ELSE Panic
            ELSE IF Len(right) >= 1 /\ right[1] # Nil
            THEN LET withRight(r) == IF r = Panic THEN Panic ELSE [e EXCEPT !.right = r]
                 IN  withRight(IF isLiteral(right[1])
                               THEN literalToExpr(right[1]) ELSE right[1])
            ELSE e
        converted(l2) ==
            IF l2 = Panic THEN Panic ELSE build([empty EXCEPT !.left = l2, !.op = op])
        wrapped(l1) ==
            converted(IF isLiteral(l1) /\ op \notin {"Literal", "Wild", "Regexp"}
                      THEN literalToExpr(l1) ELSE l1)
    IN  wrapped(IF isStringlike(left) /\ operatesOnColumn(op)
                THEN wrapInColumn(left) ELSE left)

Eq(a, b) == Expr(a, "Equals", <<b>>)

GREATER(a, b) == Expr(a, "Greater", <<b>>)

LESS(a, b) == Expr(a, "Less", <<b>>)

GREATEREQ(a, b) == Expr(a, "GreaterEq", <<b>>)

LESSEQ(a, b) == Expr(a, "LessEq", <<b>>)

\* expr.IN (IN is a reserved word)
InExpr(a, b) == Expr(a, "In", <<b>>)

\* expr.LIST(literals) with literals a []*Expression
LIST(a) == Expr([kind |-> "list", items |-> a], "List", <<>>)

AND(a, b) == Expr(a, "And", <<b>>)

OR(a, b) == Expr(a, "Or", <<b>>)

Rang(term, min, max, inclusive) == Expr(term, "Range", <<min, max, BoolV(inclusive)>>)

NOT(e) == Expr(e, "Not", <<>>)

MUST(e) == Expr(e, "Must", <<>>)

MUSTNOT(e) == Expr(e, "MustNot", <<>>)

BOOST(e, power) == Expr(e, "Boost", <<FloatV(power)>>)

FUZZY(e, distance) == Expr(e, "Fuzzy", <<IntV(distance)>>)

(***************************************************************************)
(* expr: Expression.String(), the lucene-syntax printer                    *)
(***************************************************************************)
\* expr.toString: the operator names
toString(op) ==
    CASE op = "And" -> <<"A", "N", "D">>
      [] op = "Or" -> <<"O", "R">>
      [] op = "Equals" -> <<"E", "Q", "U", "A", "L", "S">>
      [] op = "Like" -> <<"L", "I", "K", "E">>
      [] op = "Not" -> <<"N", "O", "T">>
      [] op = "Range" -> <<"R", "A", "N", "G", "E">>
      [] op = "Must" -> <<"M", "U", "S", "T">>
      [] op = "MustNot" -> <<"M", "U", "S", "T", "_", "N", "O", "T">>
      [] op = "Boost" -> <<"B", "O", "O", "S", "T">>
      [] op = "Fuzzy" -> <<"F", "U", "Z", "Z", "Y">>
      [] op = "Literal" -> <<"L", "I", "T", "E", "R", "A", "L">>
      [] op = "Wild" -> <<"W", "I", "L", "D">>
      [] op = "Regexp" -> <<"R", "E", "G", "E", "X", "P">>
      [] op = "Greater" -> <<"G", "R", "E", "A", "T", "E", "R">>
      [] op = "Less" -> <<"L", "E", "S", "S">>
      [] op = "GreaterEq" -> <<"G", "R", "E", "A", "T", "E", "R", "_", "E", "Q">>
      [] op = "LessEq" -> <<"L", "E", "S", "S", "_", "E", "Q">>
      [] op = "In" -> <<"I", "N">>
      [] op = "List" -> <<"L", "I", "S", "T">>
      [] OTHER -> <<>>

\* fmt %v of a literal value
FmtV(v) ==
    CASE v.kind \in {"str", "col"} -> v.s
      [] v.kind = "int" -> Itoa(v.n)
      [] v.kind = "float" -> FormatFloat(v.m)
      [] v.kind = "bool" -> IF v.b THEN <<"t", "r", "u", "e">> ELSE <<"f", "a", "l", "s", "e">>
      [] OTHER -> <<"<", "n", "i", "l", ">">>

\* fmt %s of a literal value: a non-string prints as %!s(type=value)
FmtS(v) ==
    CASE v.kind \in {"str", "col"} -> v.s
      [] v.kind = "int" -> <<"%", "!", "s", "(", "i", "n", "t", "=">> \o Itoa(v.n) \o <<")">>
      [] v.kind = "float" -> <<"%", "!", "s", "(", "f", "l", "o", "a", "t", "6", "4", "=">> \o FormatFloat(v.m) \o <<")">>
      [] v.kind = "bool" -> <<"%", "!", "s", "(", "b", "o", "o", "l", "=">> \o FmtV(v) \o <<")">>
      [] OTHER -> <<"%", "!", "s", "(", "<", "n", "i", "l", ">", ")">>

RECURSIVE String(_)
\* Expression.String() through the renderers table; Fmt is %s of a field,
\* which calls String() on an expression
String(e) ==
    LET Fmt(v) == IF IsExpr(v) THEN String(v) ELSE FmtS(v)
    IN  CASE e.op = "Equals" -> Fmt(e.left) \o <<":">> \o Fmt(e.right)
          [] e.op \in {"And", "Or", "Greater", "Less", "GreaterEq", "LessEq", "Like", "In"} ->
                Fmt(e.left) \o <<" ">> \o toString(e.op) \o <<" ">> \o Fmt(e.right)
          [] e.op = "Not" -> toString(e.op) \o <<"(">> \o Fmt(e.left) \o <<")">>
          [] e.op = "MustNot" -> <<"-">> \o Fmt(e.left)
          [] e.op = "Must" -> <<"+">> \o Fmt(e.left)
          [] e.op = "Boost" ->
                Fmt(e.left) \o <<"^">> \o
                (IF e.boostPower > 1000 THEN FormatFixed(e.boostPower, 1) ELSE <<>>)
          [] e.op = "Fuzzy" ->
                Fmt(e.left) \o <<"~">> \o
                (IF e.fuzzyDistance > 1 THEN Itoa(e.fuzzyDistance) ELSE <<>>)
          [] e.op = "Range" ->
                Fmt(e.left) \o <<":">> \o (IF e.right.inclusive THEN <<"[">> ELSE <<"{">>)
                \o Fmt(e.right.min) \o <<" ", "T", "O", " ">> \o Fmt(e.right.max)
                \o (IF e.right.inclusive THEN <<"]">> ELSE <<"}">>)
          [] e.op = "List" ->
                <<"(">> \o Join([i \in 1..Len(e.left.items) |-> FmtS(e.left.items[i].left)],
                              <<",", " ">>) \o <<")">>
          [] e.op \in {"Literal", "Wild", "Regexp"} ->
                IF isString(e.left) /\ Contains(e.left.s, " ")
                THEN <<"\"">> \o e.left.s \o <<"\"">>
                ELSE FmtV(e.left)
          [] OTHER -> <<>>

(***************************************************************************)
(* lex: token types and precedence                                         *)
(***************************************************************************)
\* the TokType iota: the numeric order is the operator precedence
TokType ==
    [TErr |-> 0, TLiteral |-> 1, TQuoted |-> 2, TRegexp |-> 3, TEqual |-> 4,
     TGreater |-> 5, TLess |-> 6, TColon |-> 7, TPlus |-> 8, TMinus |-> 9,
     TTilde |-> 10, TCarrot |-> 11, TNot |-> 12, TAnd |-> 13, TOr |-> 14,
     TRParen |-> 15, TLParen |-> 16, TLCurly |-> 17, TRCurly |-> 18, TTO |-> 19,
     TLSquare |-> 20, TRSquare |-> 21, TEOF |-> 22, TStart |-> 23]

\* lex.IsTerminal
IsTerminal(tok) == tok.typ \in {"TErr", "TLiteral", "TQuoted", "TRegexp", "TEOF"}

\* HasLessPrecedence without the tie rule: equal kinds count as less
HasLessPrecedence_shiftOnTie(current, next) ==
    TokType[current.typ] >= TokType[next.typ]

\* lex.HasLessPrecedence(current, next)
HasLessPrecedence(current, next) ==
    IF current.typ = next.typ THEN FALSE
    ELSE TokType[current.typ] > TokType[next.typ]

IsTok(in) == in.kind = "tok"

\* the lexer's output after the last token of the query
EOFTok == Tok("TEOF", <<>>)

\* Lexer.Peek on the token stream in: an error token is returned again on
\* every later Peek because Peek works on a copy of the lexer
Peek(in, p) == IF p > Len(in) THEN EOFTok ELSE in[p]

(***************************************************************************)
(* parse.go: literals and the shift decision                               *)
(***************************************************************************)
parseLiteral(token) ==
    LET number(ai, pf) ==
            IF ai.ok THEN Lit(IntV(ai.n))
            ELSE IF pf.ok THEN Lit(FloatV(pf.m))
            ELSE IF ContainsAny(token.val, {"*", "?"}) THEN WILD(StrV(token.val))
            ELSE IF Contains(token.val, "\\")
            THEN Lit(StrV(ReplaceAll(token.val, "\\", <<>>)))
            ELSE Lit(StrV(token.val))
    IN  IF token.typ = "TQuoted" THEN Lit(StrV(ReplaceAll(token.val, "\"", <<>>)))
        ELSE IF token.typ = "TRegexp" THEN REGEXP(StrV(token.val))
        ELSE number(Atoi(token.val), ParseFloat(token.val))

anyOpenBracket(curr, next) ==
    \/ curr.typ \in {"TLSquare", "TLCurly", "TLParen"}
    \/ next.typ \in {"TLSquare", "TLCurly", "TLParen"}

anyClosingBracket(curr) == curr.typ \in {"TRParen", "TRSquare", "TRCurly"}

endingRangeSubExpr(next) == next.typ \in {"TRSquare", "TRCurly"}

\* parser.shouldShift with nt the nonTerminals stack
shouldShift(nt, next) ==
    LET curr == nt[Len(nt)]
    IN  IF next.typ = "TEOF" THEN FALSE
        ELSE IF next.typ = "TErr" THEN FALSE
        ELSE IF IsTerminal(next) THEN TRUE
        ELSE IF anyOpenBracket(curr, next) THEN TRUE
        ELSE IF endingRangeSubExpr(next) THEN TRUE
        ELSE IF anyClosingBracket(curr) THEN FALSE
        ELSE HasLessPrecedence(curr, next)

\* parser.shouldAccept with stk the parse stack
shouldAccept(stk, next) == Len(stk) = 1 /\ next.typ = "TEOF"

(***************************************************************************)
(* reduce: the reducers over the window elems and the nonTerminals stack   *)
(***************************************************************************)
\* a stack that a slice expression with a negative bound panicked on
PanicStack == <<Panic>>

\* reduce.drop: stack[:len(stack)-i]
drop(stk, i) == IF Len(stk) >= i THEN SubSeq(stk, 1, Len(stk) - i) ELSE PanicStack

Reduced(elems, nt) == [elems |-> elems, nt |-> nt, reduced |-> TRUE]

NotReduced(elems, nt) == [elems |-> elems, nt |-> nt, reduced |-> FALSE]

IsTokOf(in, typs) == IsTok(in) /\ in.typ \in typs

wrapLiteral(lit, field) ==
    IF lit.op = "Literal" /\ field # <<>> THEN Eq(Column(field), lit) ELSE lit

toPositiveFloat(in) ==
    LET positive(i, pf) ==
            IF i.ok /\ i.n > 0 THEN [ok |-> TRUE, m |-> i.n * 1000]
            ELSE IF pf.ok /\ pf.m > 0 THEN [ok |-> TRUE, m |-> pf.m]
            ELSE [ok |-> FALSE, m |-> 0]
    IN  positive(Atoi(in), ParseFloat(in))

RECURSIVE isChainedOrLiterals(_)
isChainedOrLiterals(in) ==
    IF in.op = "Literal" THEN [out |-> <<in>>, ok |-> TRUE]
    ELSE IF in.op = "Or"
    THEN IF ~IsExpr(in.left) \/ ~IsExpr(in.right) THEN [out |-> <<>>, ok |-> FALSE]
         ELSE LET l == isChainedOrLiterals(in.left)
                  r == isChainedOrLiterals(in.right)
              IN  [out |-> l.out \o r.out, ok |-> l.ok /\ r.ok]
    ELSE [out |-> <<>>, ok |-> FALSE]

equal(elems, nt, df) ==
    IF Len(elems) # 3 THEN NotReduced(elems, nt)
    ELSE IF ~IsTokOf(elems[2], {"TEqual", "TColon"}) THEN NotReduced(elems, nt)
    ELSE IF ~IsExpr(elems[1]) THEN NotReduced(elems, nt)
    ELSE IF ~IsExpr(elems[3]) THEN NotReduced(elems, nt)
    ELSE LET literals == isChainedOrLiterals(elems[3])
         IN  IF literals.ok /\ Len(literals.out) > 1
             THEN Reduced(<<InExpr(elems[1], LIST(literals.out))>>, drop(nt, 1))
             ELSE Reduced(<<Eq(elems[1], elems[3])>>, drop(nt, 1))

compare(elems, nt, df) ==
    IF Len(elems) # 4 THEN NotReduced(elems, nt)
    ELSE IF ~IsTokOf(elems[2], {"TColon"}) THEN NotReduced(elems, nt)
    ELSE IF ~IsTokOf(elems[3], {"TGreater", "TLess"}) THEN NotReduced(elems, nt)
    ELSE IF ~IsExpr(elems[1]) THEN NotReduced(elems, nt)
    ELSE IF ~IsExpr(elems[4]) THEN NotReduced(elems, nt)
    ELSE IF elems[3].typ = "TGreater"
    THEN Reduced(<<GREATER(elems[1], elems[4])>>, drop(nt, 2))
    ELSE Reduced(<<LESS(elems[1], elems[4])>>, drop(nt, 2))

compareEq(elems, nt, df) ==
    IF Len(elems) # 5 THEN NotReduced(elems, nt)
    ELSE IF ~IsTokOf(elems[2], {"TColon"}) THEN NotReduced(elems, nt)
    ELSE IF ~IsTokOf(elems[3], {"TGreater", "TLess"}) THEN NotReduced(elems, nt)
    ELSE IF ~IsTokOf(elems[4], {"TEqual"}) THEN NotReduced(elems, nt)
    ELSE IF ~IsExpr(elems[1]) THEN NotReduced(elems, nt)
    ELSE IF ~IsExpr(elems[5]) THEN NotReduced(elems, nt)
    ELSE IF elems[3].typ = "TGreater"
    THEN Reduced(<<GREATEREQ(elems[1], elems[5])>>, drop(nt, 3))
    ELSE Reduced(<<LESSEQ(elems[1], elems[5])>>, drop(nt, 3))

and(elems, nt, df) ==
    IF Len(elems) # 3 THEN NotReduced(elems, nt)
    ELSE IF ~IsTokOf(elems[2], {"TAnd"}) THEN NotReduced(elems, nt)
    ELSE IF ~IsExpr(elems[1]) THEN NotReduced(elems, nt)
    ELSE IF ~IsExpr(elems[3]) THEN NotReduced(elems, nt)
    ELSE Reduced(<<AND(wrapLiteral(elems[1], df), wrapLiteral(elems[3], df))>>, drop(nt, 1))

or(elems, nt, df) ==
    IF Len(elems) # 3 THEN NotReduced(elems, nt)
    ELSE IF ~IsTokOf(elems[2], {"TOr"}) THEN NotReduced(elems, nt)
    ELSE IF ~IsExpr(elems[1]) THEN NotReduced(elems, nt)
    ELSE IF ~IsExpr(elems[3]) THEN NotReduced(elems, nt)
    ELSE Reduced(<<OR(wrapLiteral(elems[1], df), wrapLiteral(elems[3], df))>>, drop(nt, 1))

not(elems, nt, df) ==
    LET n == Len(elems)
    IN  IF n < 2 THEN NotReduced(elems, nt)
        ELSE IF ~IsTokOf(elems[n - 1], {"TNot"}) THEN NotReduced(elems, nt)
        ELSE IF ~IsExpr(elems[n]) THEN NotReduced(elems, nt)
        ELSE Reduced(SubSeq(elems, 1, n - 2) \o <<NOT(wrapLiteral(elems[n], df))>>,
                     drop(nt, 1))

\* sub without its effect: the parentheses stay on the stack
sub_keepsParens(elems, nt, df) ==
    IF Len(elems) # 3 THEN NotReduced(elems, nt)
    ELSE IF ~IsTokOf(elems[1], {"TLParen"}) THEN NotReduced(elems, nt)
    ELSE IF ~IsTokOf(elems[3], {"TRParen"}) THEN NotReduced(elems, nt)
    ELSE Reduced(elems, drop(nt, 2))

sub(elems, nt, df) ==
    IF Len(elems) # 3 THEN NotReduced(elems, nt)
    ELSE IF ~IsTokOf(elems[1], {"TLParen"}) THEN NotReduced(elems, nt)
    ELSE IF ~IsTokOf(elems[3], {"TRParen"}) THEN NotReduced(elems, nt)
    ELSE Reduced(<<elems[2]>>, drop(nt, 2))

must(elems, nt, df) ==
    IF Len(elems) # 2 THEN NotReduced(elems, nt)
    ELSE IF ~IsTokOf(elems[1], {"TPlus"}) THEN NotReduced(elems, nt)
    ELSE IF ~IsExpr(elems[2]) THEN NotReduced(elems, nt)
    ELSE Reduced(<<MUST(elems[2])>>, drop(nt, 1))

mustNot(elems, nt, df) ==
    IF Len(elems) # 2 THEN NotReduced(elems, nt)
    ELSE IF ~IsTokOf(elems[1], {"TMinus"}) THEN NotReduced(elems, nt)
    ELSE IF ~IsExpr(elems[2]) THEN NotReduced(elems, nt)
    ELSE Reduced(<<MUSTNOT(elems[2])>>, drop(nt, 1))

fuzzy(elems, nt, df) ==
    LET distance(d) ==
            IF d.ok THEN Reduced(<<FUZZY(elems[1], d.n)>>, drop(nt, 1))
            ELSE Reduced(<<FUZZY(elems[1], 1)>> \o SubSeq(elems, 3, Len(elems)), drop(nt, 1))
    IN  IF Len(elems) < 2 THEN NotReduced(elems, nt)
        ELSE IF ~IsTokOf(elems[2], {"TTilde"}) THEN NotReduced(elems, nt)
        ELSE IF ~IsExpr(elems[1]) THEN NotReduced(elems, nt)
        ELSE IF Len(elems) = 2 THEN Reduced(<<FUZZY(elems[1], 1)>>, drop(nt, 1))
        ELSE distance(IF IsExpr(elems[3]) THEN Atoi(String(elems[3]))
                      ELSE [ok |-> FALSE, n |-> 0])

boost(elems, nt, df) ==
    LET power(f) ==
            IF f.ok THEN Reduced(<<BOOST(elems[1], f.m)>>, drop(nt, 1))
            ELSE Reduced(<<BOOST(elems[1], 1000)>> \o SubSeq(elems, 3, Len(elems)), drop(nt, 1))
    IN  IF Len(elems) < 2 THEN NotReduced(elems, nt)
        ELSE IF ~IsTokOf(elems[2], {"TCarrot"}) THEN NotReduced(elems, nt)
        ELSE IF ~IsExpr(elems[1]) THEN NotReduced(elems, nt)
        ELSE IF Len(elems) = 2 THEN Reduced(<<BOOST(elems[1], 1000)>>, drop(nt, 1))
        ELSE power(IF IsExpr(elems[3]) THEN toPositiveFloat(String(elems[3]))
                   ELSE [ok |-> FALSE, m |-> 0])

rangeop(elems, nt, df) ==
    IF Len(elems) # 7 THEN NotReduced(elems, nt)
    ELSE IF ~IsTokOf(elems[2], {"TColon"}) THEN NotReduced(elems, nt)
    ELSE IF ~IsTokOf(elems[3], {"TLSquare", "TLCurly"}) THEN NotReduced(elems, nt)
    ELSE IF ~IsTokOf(elems[7], {"TRSquare", "TRCurly"}) THEN NotReduced(elems, nt)
    ELSE IF ~IsTokOf(elems[5], {"TTO"}) THEN NotReduced(elems, nt)
    ELSE IF ~IsExpr(elems[1]) THEN NotReduced(elems, nt)
    ELSE IF ~IsExpr(elems[4]) THEN NotReduced(elems, nt)
    ELSE IF ~IsExpr(elems[6]) THEN NotReduced(elems, nt)
    ELSE Reduced(<<Rang(elems[1], elems[4], elems[6],
                        elems[3].typ = "TLSquare" /\ elems[7].typ = "TRSquare")>>,
                 drop(nt, 4))

\* the reducers table, in order
reducers == <<"and", "or", "fuzzy", "boost", "equal", "compare", "compareEq",
              "not", "sub", "must", "mustNot", "rangeop">>

ApplyReducer(name, elems, nt, df) ==
    CASE name = "and" -> and(elems, nt, df)
      [] name = "or" -> or(elems, nt, df)
      [] name = "fuzzy" -> fuzzy(elems, nt, df)
      [] name = "boost" -> boost(elems, nt, df)
      [] name = "equal" -> equal(elems, nt, df)
      [] name = "compare" -> compare(elems, nt, df)
      [] name = "compareEq" -> compareEq(elems, nt, df)
      [] name = "not" -> not(elems, nt, df)
      [] name = "sub" -> sub(elems, nt, df)
      [] name = "must" -> must(elems, nt, df)
      [] name = "mustNot" -> mustNot(elems, nt, df)
      [] name = "rangeop" -> rangeop(elems, nt, df)

\* reduce.Reduce: the first reducer that fires
Reduce(elems, nt, df) ==
    LET first(out) ==
            IF \E i \in 1..Len(out) : out[i].reduced
            THEN out[CHOOSE k \in 1..Len(out) :
                         out[k].reduced /\ \A j \in 1..(k - 1) : ~out[j].reduced]
            ELSE NotReduced(elems, nt)
    IN  first([i \in 1..Len(reducers) |-> ApplyReducer(reducers[i], elems, nt, df)])

(***************************************************************************)
(* parse.go: the parser.  A parser state is a record                       *)
(*   [pos, stack, nt, pc, result]                                          *)
(* with pos the index of the next token of the lexer, nt the nonTerminals  *)
(* stack and pc one of "parse" (in the loop), "parsed" (parse() returned   *)
(* result), "error" (it returned an error) or "panic".                     *)
(***************************************************************************)
implAnd == Tok("TAnd", <<"A", "N", "D">>)

RECURSIVE reduce(_, _, _, _)
\* parser.reduce: pop into the window top until a reducer fires
reduce(stk, top, nt, df) ==
    LET popped(r) ==
            IF r.nt = PanicStack
            THEN [ok |-> FALSE, panic |-> TRUE, stack |-> SubSeq(stk, 1, Len(stk) - 1),
                  nt |-> nt]
            ELSE IF r.reduced
            THEN [ok |-> TRUE, panic |-> FALSE,
                  stack |-> SubSeq(stk, 1, Len(stk) - 1) \o r.elems, nt |-> r.nt]
            ELSE reduce(SubSeq(stk, 1, Len(stk) - 1), <<stk[Len(stk)]>> \o top, r.nt, df)
    IN  IF stk = <<>> THEN [ok |-> FALSE, panic |-> FALSE, stack |-> stk, nt |-> nt]
        ELSE popped(Reduce(<<stk[Len(stk)]>> \o top, nt, df))

Failed(s, how) == [s EXCEPT !.pc = how, !.result = Nil]

\* the accept branch of parser.parse
acceptStep(s, df) ==
    LET accepted(final) ==
            IF ~IsExpr(s.stack[1]) THEN Failed(s, "error")
            ELSE IF final = Panic THEN Failed(s, "panic")
            ELSE [s EXCEPT !.pc = "parsed", !.result = final]
    IN  accepted(IF IsExpr(s.stack[1]) /\ s.stack[1].op = "Literal" /\ df # <<>>
                 THEN Expr(StrV(df), "Equals", <<s.stack[1].left>>)
                 ELSE s.stack[1])

\* the shift branch of parser.parse
shiftStep(s, in, df) ==
    LET injected(lit, r) ==
            IF r.panic THEN Failed([s EXCEPT !.pos = @ + 1], "panic")
            ELSE IF ~r.ok THEN Failed([s EXCEPT !.pos = @ + 1], "error")
            ELSE [s EXCEPT !.pos = @ + 1, !.stack = r.stack \o <<implAnd, lit>>,
                           !.nt = r.nt \o <<implAnd>>]
        terminal(lit) ==
            IF s.stack = <<>> \/ IsTok(s.stack[Len(s.stack)])
            THEN [s EXCEPT !.pos = @ + 1, !.stack = @ \o <<lit>>]
            ELSE IF s.nt = <<>> THEN Failed([s EXCEPT !.pos = @ + 1], "panic")
            ELSE injected(lit, IF shouldShift(s.nt, implAnd)
                               THEN [ok |-> TRUE, panic |-> FALSE, stack |-> s.stack,
                                     nt |-> s.nt]
                               ELSE reduce(s.stack, <<>>, s.nt, df))
        shifted(tok) ==
            IF ~IsTerminal(tok)
            THEN [s EXCEPT !.pos = @ + 1, !.stack = @ \o <<tok>>, !.nt = @ \o <<tok>>]
            ELSE terminal(parseLiteral(tok))
    IN  shifted(Peek(in, s.pos))

\* the reduce branch of parser.parse
reduceStep(s, df) ==
    LET reduced(r) ==
            IF r.panic THEN Failed(s, "panic")
            ELSE IF ~r.ok THEN Failed(s, "error")
            ELSE [s EXCEPT !.stack = r.stack, !.nt = r.nt]
    IN  reduced(reduce(s.stack, <<>>, s.nt, df))

\* branch for a parser that treats an Err token as shiftable
branch_shiftsErr(s, in) ==
    LET decide(next) ==
            IF shouldAccept(s.stack, next) THEN "accept"
            ELSE IF next.typ = "TEOF" THEN "reduce"
            ELSE IF s.nt = <<>> THEN "panic"
            ELSE IF next.typ = "TErr" \/ shouldShift(s.nt, next) THEN "shift"
            ELSE "reduce"
    IN  decide(Peek(in, s.pos))

\* which branch one iteration of the loop in parser.parse takes
branch(s, in) ==
    LET decide(next) ==
            IF shouldAccept(s.stack, next) THEN "accept"
            ELSE IF next.typ \in {"TEOF", "TErr"} THEN "reduce"
            ELSE IF s.nt = <<>> THEN "panic"
            ELSE IF shouldShift(s.nt, next) THEN "shift"
            ELSE "reduce"
    IN  decide(Peek(in, s.pos))

\* one iteration of the loop in parser.parse
parseStep(s, in, df) ==
    LET taken(b) ==
            CASE b = "accept" -> acceptStep(s, df)
              [] b = "shift" -> shiftStep(s, in, df)
              [] b = "reduce" -> reduceStep(s, df)
              [] OTHER -> Failed(s, "panic")
    IN  taken(branch(s, in))

\* the parser as Parse constructs it
newParser ==
    [pos |-> 1, stack |-> <<>>, nt |-> <<Tok("TStart", <<>>)>>, pc |-> "parse", result |-> Nil]

RECURSIVE runParser(_, _, _)
runParser(s, in, df) ==
    IF s.pc # "parse" THEN s ELSE runParser(parseStep(s, in, df), in, df)

\* parser.parse() on the token stream in
parse(in, df) == runParser(newParser, in, df)

(***************************************************************************)
(* expr: the validator.  A validator is TRUE when it returns no error.     *)
(***************************************************************************)
isLiteralExpr(in) ==
    IsExpr(in) /\ in.op \in {"Literal", "Wild", "Regexp"} /\ isLiteral(in.left)

isListOfLiteralExprs(in) ==
    in.kind = "list" /\ \A i \in 1..Len(in.items) : isLiteralExpr(in.items[i])

\* the validators table with each validator's conditions; an operator without
\* an entry is an error
validators(e) ==
    LET present == e.left # Nil
        single  == e.left # Nil /\ e.right = Nil
    IN  CASE e.op \in {"Equals", "Greater", "Less", "GreaterEq", "LessEq"} ->
                 isLiteralExpr(e.left)
          [] e.op \in {"And", "Or"} -> present /\ e.right # Nil
          [] e.op \in {"Not", "Must", "MustNot", "Boost", "Fuzzy"} -> single
          [] e.op = "Range" ->
                 /\ present
                 /\ e.right # Nil
                 /\ isLiteralExpr(e.left)
                 /\ e.right.kind = "boundary"
                 /\ e.right.min # Nil
                 /\ e.right.max # Nil
          [] e.op \in {"Literal", "Wild", "Regexp"} -> single /\ isLiteral(e.left)
          [] e.op = "Like" ->
                 /\ present
                 /\ isLiteralExpr(e.left)
                 /\ e.right # Nil
                 /\ IsExpr(e.right)
                 /\ e.right.op \in {"Wild", "Regexp"}
          [] e.op = "In" ->
                 /\ present
                 /\ isLiteralExpr(e.left)
                 /\ e.right # Nil
                 /\ IsExpr(e.right)
                 /\ e.right.op = "List"
          [] e.op = "List" -> single /\ isListOfLiteralExprs(e.left)
          [] OTHER -> FALSE

RECURSIVE Validate(_)
\* expr.Validate: the node, then Left, then Right; a non-expression is a leaf
Validate(in) ==
    IF ~IsExpr(in) THEN TRUE
    ELSE validators(in) /\ Validate(in.left) /\ Validate(in.right)

\* lucene.Parse on a token stream: parse() then Validate; the tree is nil on
\* every error
Parse(in, df) ==
    LET validated(s) ==
            IF s.pc = "parsed" /\ ~Validate(s.result) THEN Failed(s, "error") ELSE s
    IN  validated(parse(in, df))

(***************************************************************************)
(* driver: the render functions.  A render result is a record              *)
(*   [st, s, params, msg]  with st one of "ok", "err" (an error is         *)
(*   returned) or "panic", s the returned text, params the returned        *)
(*   parameter list and msg the start of the message of the error.         *)
(***************************************************************************)
Ok(s, params) == [st |-> "ok", s |-> s, params |-> params, msg |-> ""]

Fail(how) == [st |-> how, s |-> <<>>, params |-> <<>>, msg |-> ""]

\* return "", fmt.Errorf(message, ...)
Error(message) == [st |-> "err", s |-> <<>>, params |-> <<>>, msg |-> message]

\* driver.like: a /regexp/ inside its quotes keeps the ~ operator
like(left, right) ==
    IF Len(right) >= 4 /\ right[2] = "/" /\ right[Len(right) - 1] = "/"
    THEN left \o <<" ", "~", " ">> \o right
    ELSE left \o <<" ", "S", "I", "M", "I", "L", "A", "R", " ", "T", "O", " ">>
         \o ReplaceAll(ReplaceAll(right, "*", <<"%">>), "?", <<"_">>)

\* driver.likeParam(left, right, params) as Base.RenderParam calls it
likeParam(left, right, params) ==
    IF Len(params) = 1 /\ ~isString(params[1]) THEN Fail("panic")
    ELSE IF /\ Len(params) = 1
            /\ Len(params[1].s) >= 4
            /\ params[1].s[1] = "/"
            /\ params[1].s[Len(params[1].s)] = "/"
    THEN Ok(left \o <<" ", "~", " ">> \o right, <<>>)
    ELSE Ok(left \o <<" ", "S", "I", "M", "I", "L", "A", "R", " ", "T", "O", " ">> \o right, <<>>)

\* driver.toInts: both bounds as ints, '*' excepted
toInts(rawMin, rawMax) ==
    LET both(mn, mx) ==
            IF rawMin # <<"'", "*", "'">> /\ ~mn.ok THEN [ok |-> FALSE, min |-> 0, max |-> 0]
            ELSE IF rawMax # <<"'", "*", "'">> /\ ~mx.ok
            THEN [ok |-> FALSE, min |-> 0, max |-> 0]
            ELSE [ok |-> TRUE, min |-> mn.n, max |-> mx.n]
    IN  both(Atoi(rawMin), Atoi(rawMax))

\* driver.toFloats: both bounds as floats, a bare * excepted
toFloats(rawMin, rawMax) ==
    LET both(mn, mx) ==
            IF rawMin # <<"*">> /\ ~mn.ok THEN [ok |-> FALSE, min |-> 0, max |-> 0]
            ELSE IF rawMax # <<"*">> /\ ~mx.ok THEN [ok |-> FALSE, min |-> 0, max |-> 0]
            ELSE [ok |-> TRUE, min |-> mn.m, max |-> mx.m]
    IN  both(ParseFloat(rawMin), ParseFloat(rawMax))

\* the comparison forms shared by rang and rangParam: an open side when a
\* bound is '*', both sides otherwise; lo and hi are the printed bounds
rangCompare(left, inclusive, rawMin, rawMax, lo, hi) ==
    IF rawMin = <<"'", "*", "'">>
    THEN left \o (IF inclusive THEN <<" ", "<", "=", " ">> ELSE <<" ", "<", " ">>) \o hi
    ELSE IF rawMax = <<"'", "*", "'">>
    THEN left \o (IF inclusive THEN <<" ", ">", "=", " ">> ELSE <<" ", ">", " ">>) \o lo
    ELSE left \o (IF inclusive THEN <<" ", ">", "=", " ">> ELSE <<" ", ">", " ">>) \o lo \o <<" ", "A", "N", "D", " ">>
         \o left \o (IF inclusive THEN <<" ", "<", "=", " ">> ELSE <<" ", "<", " ">>) \o hi

\* driver.rang
rang(left, right) ==
    LET inclusive == ~(right[1] = "(" /\ right[Len(right)] = ")")
        compared(rawMin, rawMax, lo, hi) ==
            Ok(rangCompare(left, inclusive, rawMin, rawMax, lo, hi), <<>>)
        rendered(rawMin, rawMax, ints, floats) ==
            IF ints.ok
            THEN compared(rawMin, rawMax, Itoa(ints.min), Itoa(ints.max))
            ELSE IF floats.ok
            THEN compared(rawMin, rawMax,
                          FormatFixed(floats.min, 2), FormatFixed(floats.max, 2))
            ELSE Ok(left \o <<" ", "B", "E", "T", "W", "E", "E", "N", " ">> \o rawMin
                    \o <<" ", "A", "N", "D", " ">> \o rawMax, <<>>)
        bounds(rawMin, rawMax) ==
            rendered(rawMin, rawMax, toInts(rawMin, rawMax), toFloats(rawMin, rawMax))
        sliced(rangeSlice) ==
            IF Len(rangeSlice) # 2
            THEN Error("the BETWEEN operator needs a two item list in the right hand side")
            ELSE bounds(Trim(rangeSlice[1], " "), Trim(rangeSlice[2], " "))
    IN  IF Len(right) < 2 THEN Fail("panic")
        ELSE sliced(Split(SubSeq(right, 2, Len(right) - 1), ","))

\* driver.rangParam
rangParam(left, right, params) ==
    LET inclusive == ~(right[1] = "(" /\ right[Len(right)] = ")")
        bounds(rawMin, rawMax) ==
            IF rawMin = <<"?">> \/ rawMax = <<"?">>
            THEN IF params = <<>> THEN Fail("panic")
                 ELSE IF isNum(params[1])
                 THEN Ok(rangCompare(left, inclusive, rawMin, rawMax, rawMin, rawMax), <<>>)
                 ELSE Ok(left \o <<" ", "B", "E", "T", "W", "E", "E", "N", " ">> \o rawMin
                         \o <<" ", "A", "N", "D", " ">> \o rawMax, <<>>)
            ELSE rang(left, right)
        sliced(rangeSlice) ==
            IF Len(rangeSlice) # 2
            THEN Error("the BETWEEN operator needs a two item list in the right hand side")
            ELSE bounds(Trim(rangeSlice[1], " "), Trim(rangeSlice[2], " "))
    IN  IF Len(right) < 2 THEN Fail("panic")
        ELSE sliced(Split(SubSeq(right, 2, Len(right) - 1), ","))

\* the Shared table of render functions applied to an operator; Fuzzy and
\* Boost have no entry
RenderFNs(op, left, right) ==
    CASE op \in {"Literal", "Wild", "Regexp"} -> Ok(left, <<>>)
      [] op \in {"And", "Or"} -> Ok(left \o <<" ">> \o toString(op) \o <<" ">> \o right, <<>>)
      [] op \in {"Not", "MustNot"} -> Ok(toString("Not") \o <<"(">> \o left \o <<")">>, <<>>)
      [] op = "Equals" -> Ok(left \o <<" ", "=", " ">> \o right, <<>>)
      [] op = "Range" -> rang(left, right)
      [] op = "Must" -> Ok(left, <<>>)
      [] op = "Like" -> Ok(like(left, right), <<>>)
      [] op = "Greater" -> Ok(left \o <<" ", ">", " ">> \o right, <<>>)
      [] op = "GreaterEq" -> Ok(left \o <<" ", ">", "=", " ">> \o right, <<>>)
      [] op = "Less" -> Ok(left \o <<" ", "<", " ">> \o right, <<>>)
      [] op = "LessEq" -> Ok(left \o <<" ", "<", "=", " ">> \o right, <<>>)
      [] op = "In" -> Ok(left \o <<" ", "I", "N", " ">> \o right, <<>>)
      [] op = "List" -> Ok(<<"(">> \o left \o <<")">>, <<>>)
      [] OTHER -> Error("unable to render operator")

(***************************************************************************)
(* driver: Base.Render, Base.RenderParam and the PostgreSQL driver         *)
(***************************************************************************)
\* Base.isSimple
isSimple(in) ==
    CASE IsExpr(in) -> in.op \in {"Undefined", "Literal", "Regexp", "Wild"}
      [] in.kind \in {"col", "nil", "str", "int", "float"} -> TRUE
      [] OTHER -> FALSE

\* the operators whose children Render and RenderParam parenthesize
parenthesized(op) ==
    op \notin {"Range", "Not", "List", "In", "Literal", "Must", "MustNot"}

\* the Column case of serialize and serializeParams
serializeColumn(v) ==
    IF Len(v.s) = 0 THEN Error("column name is empty")
    ELSE IF Contains(v.s, "\"") THEN Error("column name contains a double quote")
    ELSE Ok(<<"\"">> \o v.s \o <<"\"">>, <<>>)

RECURSIVE Render(_), serialize(_), RenderParam(_), serializeParams(_)

\* Base.Render
Render(e) ==
    LET rendered(l, r) ==
            IF l.st # "ok" THEN [l EXCEPT !.s = <<>>]
            ELSE IF r.st # "ok" THEN [r EXCEPT !.s = <<>>]
            ELSE RenderFNs(e.op,
                           IF parenthesized(e.op) /\ ~isSimple(e.left)
                           THEN <<"(">> \o l.s \o <<")">> ELSE l.s,
                           IF parenthesized(e.op) /\ ~isSimple(e.right)
                           THEN <<"(">> \o r.s \o <<")">> ELSE r.s)
    IN  rendered(serialize(e.left), serialize(e.right))

\* the []*Expression case of serialize and serializeParams on the rendered
\* items: joined by ", "; the first error is returned with the parameters
\* of the items before it
serializeList(rendered) ==
    LET RECURSIVE params(_)
        params(n) == IF n = 0 THEN <<>> ELSE params(n - 1) \o rendered[n].params
        failed(i) == IF rendered[i].st = "panic" THEN rendered[i]
                     ELSE [rendered[i] EXCEPT !.params = params(i - 1)]
    IN  IF \E i \in 1..Len(rendered) : rendered[i].st # "ok"
        THEN failed(CHOOSE i \in 1..Len(rendered) :
                        /\ rendered[i].st # "ok"
                        /\ \A j \in 1..(i - 1) : rendered[j].st = "ok")
        ELSE Ok(Join([i \in 1..Len(rendered) |-> rendered[i].s], <<",", " ">>),
                params(Len(rendered)))

\* Base.serialize
serialize(in) ==
    LET boundary(mn, mx) ==
            IF mn.st # "ok" THEN [mn EXCEPT !.s = <<>>]
            ELSE IF mx.st # "ok" THEN [mx EXCEPT !.s = <<>>]
            ELSE IF in.inclusive
            THEN Ok(<<"[">> \o mn.s \o <<",", " ">> \o mx.s \o <<"]">>, <<>>)
            ELSE Ok(<<"(">> \o mn.s \o <<",", " ">> \o mx.s \o <<")">>, <<>>)
    IN  CASE in.kind = "nil" -> Ok(<<>>, <<>>)
          [] in.kind = "expr" -> Render(in)
          [] in.kind = "list" ->
                serializeList([i \in 1..Len(in.items) |-> Render(in.items[i])])
          [] in.kind = "boundary" -> boundary(serialize(in.min), serialize(in.max))
          [] in.kind = "col" -> serializeColumn(in)
          [] in.kind = "str" ->
                Ok(<<"'">> \o ReplaceAll(in.s, "'", <<"'", "'">>) \o <<"'">>, <<>>)
          [] OTHER -> Ok(FmtV(in), <<>>)

\* serializeParams with the string case of serialize: the value is quoted inline
serializeParams_inlineStrings(in) ==
    LET boundary(mn, mx) ==
            IF mn.st # "ok" THEN [mn EXCEPT !.s = <<>>, !.params = <<>>]
            ELSE IF mx.st # "ok" THEN [mx EXCEPT !.s = <<>>, !.params = <<>>]
            ELSE IF in.inclusive
            THEN Ok(<<"[">> \o mn.s \o <<",", " ">> \o mx.s \o <<"]">>, mn.params \o mx.params)
            ELSE Ok(<<"(">> \o mn.s \o <<",", " ">> \o mx.s \o <<")">>, mn.params \o mx.params)
    IN  CASE in.kind = "nil" -> Ok(<<>>, <<>>)
          [] in.kind = "expr" -> RenderParam(in)
          [] in.kind = "list" ->
                serializeList([i \in 1..Len(in.items) |-> RenderParam(in.items[i])])
          [] in.kind = "boundary" ->
                boundary(serializeParams(in.min), serializeParams(in.max))
          [] in.kind = "col" -> serializeColumn(in)
          [] in.kind = "str" ->
                Ok(<<"'">> \o ReplaceAll(in.s, "'", <<"'", "'">>) \o <<"'">>, <<>>)
          [] OTHER -> Ok(<<"?">>, <<in>>)

\* Base.serializeParams
serializeParams(in) ==
    LET boundary(mn, mx) ==
            IF mn.st # "ok" THEN [mn EXCEPT !.s = <<>>, !.params = <<>>]
            ELSE IF mx.st # "ok" THEN [mx EXCEPT !.s = <<>>, !.params = <<>>]
            ELSE IF in.inclusive
            THEN Ok(<<"[">> \o mn.s \o <<",", " ">> \o mx.s \o <<"]">>, mn.params \o mx.params)
            ELSE Ok(<<"(">> \o mn.s \o <<",", " ">> \o mx.s \o <<")">>, mn.params \o mx.params)
    IN  CASE in.kind = "nil" -> Ok(<<>>, <<>>)
          [] in.kind = "expr" -> RenderParam(in)
          [] in.kind = "list" ->
                serializeList([i \in 1..Len(in.items) |-> RenderParam(in.items[i])])
          [] in.kind = "boundary" ->
                boundary(serializeParams(in.min), serializeParams(in.max))
          [] in.kind = "col" -> serializeColumn(in)
          [] in.kind = "str" ->
                IF in.s = <<"*">> THEN Ok(<<"'", "*", "'">>, <<>>) ELSE Ok(<<"?">>, <<in>>)
          [] OTHER -> Ok(<<"?">>, <<in>>)

\* Base.RenderParam
RenderParam(e) ==
    LET finish(out, params) ==
            IF out.st = "panic" THEN out ELSE [out EXCEPT !.params = params]
        call(left, right, lparams, rparams) ==
            finish(IF e.op = "Like" THEN likeParam(left, right, rparams)
                   ELSE IF e.op = "Range" THEN rangParam(left, right, rparams)
                   ELSE RenderFNs(e.op, left, right),
                   lparams \o rparams)
        converted(rval) ==
            IF Len(rval) >= 4 /\ rval[1] = "/" /\ rval[Len(rval)] = "/" THEN rval
            ELSE ReplaceAll(ReplaceAll(rval, "*", <<"%">>), "?", <<"_">>)
        rendered(l, r) ==
            IF l.st # "ok" THEN [l EXCEPT !.s = <<>>, !.params = <<>>]
            ELSE IF r.st # "ok" THEN [r EXCEPT !.s = <<>>, !.params = <<>>]
            ELSE IF e.op = "Like" /\ (r.params = <<>> \/ ~isString(r.params[1]))
            THEN Fail("panic")
            ELSE call(IF parenthesized(e.op) /\ ~isSimple(e.left)
                      THEN <<"(">> \o l.s \o <<")">> ELSE l.s,
                      IF parenthesized(e.op) /\ ~isSimple(e.right)
                      THEN <<"(">> \o r.s \o <<")">> ELSE r.s,
                      l.params,
                      IF e.op = "Like"
                      THEN <<StrV(converted(r.params[1].s))>> \o Tail(r.params)
                      ELSE r.params)
    IN  rendered(serializeParams(e.left), serializeParams(e.right))

RECURSIVE placeholders(_, _)
\* the loop of PostgresDriver.RenderParam: every ? of the text becomes $N
placeholders(str, paramIndex) ==
    IF str = <<>> THEN <<>>
    ELSE IF Head(str) = "?"
    THEN <<"$">> \o Itoa(paramIndex) \o placeholders(Tail(str), paramIndex + 1)
    ELSE <<Head(str)>> \o placeholders(Tail(str), paramIndex)

\* PostgresDriver.RenderParam
PostgresRenderParam(e) ==
    LET numbered(r) ==
            IF r.st # "ok" THEN [r EXCEPT !.s = <<>>] ELSE Ok(placeholders(r.s, 1), r.params)
    IN  numbered(RenderParam(e))

\* lucene.ToPostgres on a token stream
ToPostgres(in, df) ==
    LET rendered(p) ==
            IF p.pc = "parsed" THEN Render(p.result)
            ELSE IF p.pc = "panic" THEN Fail("panic") ELSE Error("parse")
    IN  rendered(Parse(in, df))

\* lucene.ToParameterizedPostgres on a token stream
ToParameterizedPostgres(in, df) ==
    LET rendered(p) ==
            IF p.pc = "parsed" THEN PostgresRenderParam(p.result)
            ELSE IF p.pc = "panic" THEN Fail("panic") ELSE Error("parse")
    IN  rendered(Parse(in, df))

(***************************************************************************)
(* expr: the JSON codec.  A JSON document is a record with a kind:         *)
(*   "jstr" (s)  "jnum" (text)  "jarr" (items)                             *)
(*   "jobj" (left, operator, right, power, distance)  jsonExpression       *)
(*   "jbound" (min, max, inclusive)                   RangeBoundary        *)
(* A field that omitempty leaves out is Nil; inclusive is "true", "false"  *)
(* or, for a text without the key, "absent".  A decode result is an        *)
(* expression, JSONError or Panic.                                         *)
(***************************************************************************)
JSONError == [kind |-> "error"]

RECURSIVE MarshalJSON(_)
\* Expression.MarshalJSON, with json.Marshal of the field values
MarshalJSON(e) ==
    LET marshal(v) ==
            CASE v.kind \in {"str", "col"} -> [kind |-> "jstr", s |-> v.s]
              [] v.kind = "int" -> [kind |-> "jnum", text |-> Itoa(v.n)]
              [] v.kind = "float" -> [kind |-> "jnum", text |-> FormatFloat(v.m)]
              [] v.kind = "expr" -> MarshalJSON(v)
              [] v.kind = "list" ->
                    [kind |-> "jarr",
                     items |-> [i \in 1..Len(v.items) |-> MarshalJSON(v.items[i])]]
              [] v.kind = "boundary" ->
                    [kind |-> "jbound", min |-> MarshalJSON(v.min),
                     max |-> MarshalJSON(v.max),
                     inclusive |-> IF v.inclusive THEN "true" ELSE "false"]
              [] OTHER -> Nil
    IN  IF e.op \in {"Literal", "Wild", "Regexp"} THEN marshal(e.left)
        ELSE [kind |-> "jobj",
              left |-> marshal(e.left),
              operator |-> toString(e.op),
              right |-> IF e.right # Nil THEN marshal(e.right) ELSE Nil,
              power |-> IF e.boostPower # 1000
                        THEN [kind |-> "jnum", text |-> FormatFloat(e.boostPower)]
                        ELSE Nil,
              distance |-> IF e.fuzzyDistance # 1
                           THEN [kind |-> "jnum", text |-> Itoa(e.fuzzyDistance)]
                           ELSE Nil]

\* expr.fromString: the operator of a name, Undefined for an unknown one
fromString(name) ==
    LET ops == {"And", "Or", "Equals", "Like", "Not", "Range", "Must", "MustNot",
                "Boost", "Fuzzy", "Literal", "Wild", "Regexp", "Greater", "Less",
                "GreaterEq", "LessEq", "In", "List"}
    IN  IF \E op \in ops : toString(op) = name
        THEN CHOOSE op \in ops : toString(op) = name
        ELSE "Undefined"

\* unmarshalLiteral on the raw text of a JSON scalar
unmarshalLiteral(in) ==
    IF in.kind = "jnum"
    THEN IF Atoi(in.text).ok THEN Lit(IntV(Atoi(in.text).n))
         ELSE IF ParseFloat(in.text).ok THEN Lit(FloatV(ParseFloat(in.text).m))
         ELSE JSONError
    ELSE IF in.kind = "jstr" THEN literalToExpr(StrV(in.s))
    ELSE JSONError

RECURSIVE hasKey(_, _)
\* whether the text of a JSON document contains the key "name":
hasKey(j, name) ==
    CASE j.kind = "jobj" ->
            \/ name \in {"left", "operator"}
            \/ (name = "right" /\ j.right # Nil)
            \/ hasKey(j.left, name)
            \/ (j.right # Nil /\ hasKey(j.right, name))
      [] j.kind = "jbound" ->
            \/ name \in {"min", "max"}
            \/ (name = "inclusive" /\ j.inclusive # "absent")
            \/ hasKey(j.min, name)
            \/ hasKey(j.max, name)
      [] j.kind = "jarr" -> \E i \in 1..Len(j.items) : hasKey(j.items[i], name)
      [] OTHER -> FALSE

looksLikeRangeBoundary(in) ==
    hasKey(in, "min") /\ hasKey(in, "max") /\ ~hasKey(in, "left")

\* toIntIfNecessary on a decoded float64
toIntIfNecessary(in) ==
    IF isFloat(in) /\ in.m % 1000 = 0 THEN IntV(in.m \div 1000) ELSE in

RECURSIVE UnmarshalJSON(_)
\* Expression.UnmarshalJSON
UnmarshalJSON(data) ==
    LET bad(v) == v \in {JSONError, Panic}
        items == [i \in 1..Len(data.left.items) |-> unmarshalLiteral(data.left.items[i])]
        left0 == IF data.left.kind = "jarr"
                 THEN IF \E i \in 1..Len(items) : items[i] = Panic THEN Panic
                      ELSE IF \E i \in 1..Len(items) : items[i] = JSONError THEN JSONError
                      ELSE [kind |-> "list", items |-> items]
                 ELSE UnmarshalJSON(data.left)
        op    == fromString(data.operator)
        left  == IF isStringlike(left0) /\ operatesOnColumn(op)
                 THEN wrapInColumn(left0) ELSE left0
        \* json.Unmarshal into RangeBoundary.Min / Max (type any)
        any(j) == IF j.kind = "jnum" THEN FloatV(ParseFloat(j.text).m) ELSE StrV(j.s)
        mn    == literalToExpr(toIntIfNecessary(any(data.right.min)))
        mx    == literalToExpr(toIntIfNecessary(any(data.right.max)))
        right == IF data.right = Nil THEN Nil
                 ELSE IF looksLikeRangeBoundary(data.right)
                 THEN IF mn = Panic \/ mx = Panic THEN Panic
                      ELSE [kind |-> "boundary", min |-> mn, max |-> mx,
                            inclusive |-> data.right.inclusive = "true"]
                 ELSE UnmarshalJSON(data.right)
    IN  IF data.kind \in {"jstr", "jnum", "jarr"} THEN unmarshalLiteral(data)
        ELSE IF data.kind # "jobj" THEN JSONError
        ELSE IF bad(left0) THEN left0
        ELSE IF bad(right) THEN right
        ELSE [empty EXCEPT !.left = left, !.op = op, !.right = right,
                           !.fuzzyDistance =
                               IF op = "Fuzzy" /\ data.distance # Nil
                               THEN Atoi(data.distance.text).n ELSE 1,
                           !.boostPower =
                               IF op = "Boost" /\ data.power # Nil
                               THEN ParseFloat(data.power.text).m ELSE 1000]

(***************************************************************************)
(* lex: the lexer.  A lexer is a record [input, pos, start, atEOF,         *)
(* currItem]; pos and start count the runes before the cursor.             *)
(***************************************************************************)
\* lex.Lex
Lex(in) ==
    [input |-> in, pos |-> 0, start |-> 0, atEOF |-> FALSE, currItem |-> Tok("TErr", <<>>)]

\* Lexer.next: the lexer after the call (l) and the rune it returns (r)
next(l) ==
    IF l.pos >= Len(l.input) THEN [l |-> [l EXCEPT !.atEOF = TRUE], r |-> "eof"]
    ELSE [l |-> [l EXCEPT !.pos = @ + 1], r |-> l.input[l.pos + 1]]

\* Lexer.backup
backup(l) == IF ~l.atEOF /\ l.pos > 0 THEN [l EXCEPT !.pos = @ - 1] ELSE l

\* Lexer.emit with Lexer.toTok
emit(l, t) ==
    [l EXCEPT !.currItem = Tok(t, SubSeq(l.input, l.start + 1, l.pos)), !.start = l.pos]

\* Lexer.errorf
errorf(l, message) ==
    [l EXCEPT !.currItem = Tok("TErr", message), !.start = 0, !.pos = 0, !.input = <<>>]

isAlphaNumeric(r) ==
    \/ r = "_"
    \/ IsDigit(r)
    \/ r \in {"a", "b", "c", "d", "e", "f", "g", "h", "i", "j", "k", "l", "m", "n", "o",
              "p", "q", "r", "s", "t", "u", "v", "w", "x", "y", "z", "A", "B", "C", "D",
              "E", "F", "G", "H", "I", "J", "K", "L", "M", "N", "O", "P", "Q", "R", "S",
              "T", "U", "V", "W", "X", "Y", "Z"}

isWildcard(r) == r \in {"*", "?"}

isEscape(r) == r = "\\"

symbols ==
    ("(" :> "TLParen") @@ (")" :> "TRParen") @@ ("[" :> "TLSquare") @@ ("]" :> "TRSquare")
    @@ ("{" :> "TLCurly") @@ ("}" :> "TRCurly") @@ (":" :> "TColon") @@ ("+" :> "TPlus")
    @@ ("=" :> "TEqual") @@ (">" :> "TGreater") @@ ("~" :> "TTilde") @@ ("^" :> "TCarrot")
    @@ ("<" :> "TLess")

isSymbol(r) == r \in DOMAIN symbols

RECURSIVE lexPhrase(_)
\* lexPhrase; the lexer stands before the opening quote
lexPhrase(l0) ==
    LET open == next(l0).r
        RECURSIVE scan(_)
        scan(l) ==
            LET step(n) ==
                    CASE isAlphaNumeric(n.r) \/ isWildcard(n.r) \/ isEscape(n.r) -> scan(n.l)
                      [] n.r \in {" ", "\t", "\r", "\n"} -> scan(n.l)
                      [] n.r = open -> emit(n.l, "TQuoted")
                      [] n.r = "eof" -> errorf(n.l, <<"u", "n", "t", "e", "r", "m", "i", "n", "a", "t", "e", "d", " ", "q", "u", "o", "t", "e">>)
                      [] OTHER -> scan(n.l)
            IN  step(next(l))
    IN  scan(next(l0).l)

RECURSIVE lexRegexp(_)
\* lexRegexp; the lexer stands before the opening slash
lexRegexp(l0) ==
    LET open == next(l0).r
        RECURSIVE scan(_)
        scan(l) ==
            LET step(n) ==
                    CASE isAlphaNumeric(n.r) \/ isWildcard(n.r) -> scan(n.l)
                      [] isEscape(n.r) -> scan(next(n.l).l)
                      [] n.r \in {" ", "\t", "\r", "\n"} -> scan(n.l)
                      [] n.r = open -> emit(n.l, "TRegexp")
                      [] n.r = "eof" -> errorf(n.l, <<"u", "n", "t", "e", "r", "m", "i", "n", "a", "t", "e", "d", " ", "r", "e", "g", "e", "x", "p">>)
                      [] OTHER -> scan(n.l)
            IN  step(next(l))
    IN  scan(next(l0).l)

RECURSIVE lexWord(_)
\* lexWord
lexWord(l) ==
    LET ToUpper(s) ==
            [i \in 1..Len(s) |->
                CASE s[i] = "a" -> "A" [] s[i] = "n" -> "N" [] s[i] = "d" -> "D"
                  [] s[i] = "o" -> "O" [] s[i] = "r" -> "R" [] s[i] = "t" -> "T"
                  [] OTHER -> s[i]]
        word(w) ==
            CASE w = <<"A", "N", "D">> -> "TAnd"
              [] w = <<"O", "R">> -> "TOr"
              [] w = <<"N", "O", "T">> -> "TNot"
              [] w = <<"T", "O">> -> "TTO"
              [] OTHER -> "TLiteral"
        done(e) == emit(e, word(ToUpper(SubSeq(e.input, e.start + 1, e.pos))))
        step(n) ==
            CASE isAlphaNumeric(n.r) \/ isWildcard(n.r) \/ n.r = "." \/ n.r = "-" -> lexWord(n.l)
              [] isEscape(n.r) -> lexWord(next(n.l).l)
              [] OTHER -> done(backup(n.l))
    IN  step(next(l))

\* lexVal
lexVal(l) ==
    LET minus(p) ==
            IF ~IsDigit(next(p).r) THEN emit(backup(next(p).l), "TMinus")
            ELSE lexWord(backup(backup(next(p).l)))
        value(n) ==
            CASE isAlphaNumeric(n.r) \/ isWildcard(n.r) \/ isEscape(n.r) -> lexWord(backup(n.l))
              [] isSymbol(n.r) -> emit(n.l, symbols[n.r])
              [] n.r = "-" -> minus(n.l)
              [] n.r = "\"" \/ n.r = "'" -> lexPhrase(backup(n.l))
              [] n.r = "/" -> lexRegexp(backup(n.l))
              [] OTHER -> errorf(n.l, <<"e", "r", "r", "o", "r", " ", "p", "a", "r", "s", "i", "n", "g", " ", "t", "o", "k", "e", "n", " ", "[">> \o <<n.r>> \o <<"]">>)
    IN  value(next([l EXCEPT !.start = l.pos]))

RECURSIVE lexSpace(_)
\* lexSpace
lexSpace(l) ==
    LET space(n) ==
            CASE n.r = "eof" -> n.l
              [] n.r \in {" ", "\t", "\r", "\n"} -> lexSpace(n.l)
              [] OTHER -> lexVal(backup(n.l))
    IN  space(next(l))

\* Lexer.Next
LexerNext(l) == lexSpace([l EXCEPT !.currItem = EOFTok])

RECURSIVE Tokens(_, _)
\* the tokens that Lexer.Next returns before TEOF, after those of read
Tokens(l, read) ==
    LET more(n) == IF n.currItem.typ = "TEOF" THEN read ELSE Tokens(n, Append(read, n.currItem))
    IN  more(LexerNext(l))

(***************************************************************************)
(* The queries: token streams as the lexer hands them to the parser        *)
(***************************************************************************)
\* the longest query of the free family
MaxLen == 3

\* the most operands of a chain  x1 OP x2 ... OP xn
MaxOperands == 3

\* the most values of a group  field:(v1 OR ... OR vn)
MaxList == 3

Word(text) == Tok("TLiteral", text)

\* the token of a keyword or symbol
Symbol(typ) ==
    Tok(typ,
           CASE typ = "TColon" -> <<":">> [] typ = "TEqual" -> <<"=">>
             [] typ = "TGreater" -> <<">">> [] typ = "TLess" -> <<"<">>
             [] typ = "TPlus" -> <<"+">> [] typ = "TMinus" -> <<"-">>
             [] typ = "TTilde" -> <<"~">> [] typ = "TCarrot" -> <<"^">>
             [] typ = "TNot" -> <<"N", "O", "T">> [] typ = "TAnd" -> <<"A", "N", "D">>
             [] typ = "TOr" -> <<"O", "R">> [] typ = "TTO" -> <<"T", "O">>
             [] typ = "TLParen" -> <<"(">> [] typ = "TRParen" -> <<")">>
             [] typ = "TLSquare" -> <<"[">> [] typ = "TRSquare" -> <<"]">>
             [] typ = "TLCurly" -> <<"{">> [] typ = "TRCurly" -> <<"}">>
             [] OTHER -> <<>>)

\* values: words, numbers, wildcards, phrases and regexps
Values ==
    {Word(<<"b">>), Word(<<"5">>), Word(<<"2", ".", "5">>), Word(<<"*">>), Word(<<"b", "*">>),
     Tok("TQuoted", <<"\"", "b", "*", "\"">>), Tok("TQuoted", <<"\"", "x", " ", "y", "\"">>), Tok("TQuoted", <<"\"", "\"">>),
     Tok("TRegexp", <<"/", "r", "/">>), Tok("TRegexp", <<"/", "r", "e", "/">>)}

\* the free family: every stream up to MaxLen over a small vocabulary
FreeQueries ==
    LET FreeTokens ==
            {Word(<<"a">>), Word(<<"5">>), Tok("TQuoted", <<"\"", "\"">>),
             Tok("TErr", <<"e", "r", "r", "o", "r">>)}
            \cup {Symbol(t) : t \in {"TColon", "TAnd", "TNot", "TLParen", "TRParen",
                                     "TTilde", "TCarrot", "TPlus", "TMinus"}}
    IN  UNION {[1..n -> FreeTokens] : n \in 0..MaxLen}

\* field OP value
FieldQueries ==
    {<<f>> \o op \o <<v>> :
        f \in {Word(<<"a">>), Word(<<"a", "?">>), Word(<<"1">>), Word(<<"a", "\\", "\"", "b">>),
                Tok("TQuoted", <<"\"", "\"">>)},
        op \in {<<Symbol("TColon")>>, <<Symbol("TEqual")>>,
                <<Symbol("TColon"), Symbol("TGreater")>>,
                <<Symbol("TColon"), Symbol("TLess")>>,
                <<Symbol("TColon"), Symbol("TGreater"), Symbol("TEqual")>>,
                <<Symbol("TColon"), Symbol("TLess"), Symbol("TEqual")>>},
        v \in Values}

\* field:[min TO max] with either bracket on either side
RangeQueries ==
    {<<f, Symbol("TColon"), Symbol(open), mn, Symbol("TTO"), mx, Symbol(close)>> :
        f \in {Word(<<"a">>), Word(<<"1">>)},
        open \in {"TLSquare", "TLCurly"}, close \in {"TRSquare", "TRCurly"},
        mn \in {Word(<<"*">>), Word(<<"1">>), Word(<<"2", ".", "3", "4", "5">>), Word(<<"b">>)},
        mx \in {Word(<<"*">>), Word(<<"7">>), Word(<<"2", ".", "3", "4", "5">>), Word(<<"c">>)}}

\* the operand at position i of a chain: a word, field:value, or either negated
Operand(kind, i) ==
    LET name  == Word(<<<<"a", "b", "c", "d", "e", "f">>[i]>>)
        value == Word(<<<<"u", "v", "w", "x", "y", "z">>[i]>>)
    IN  CASE kind = "word" -> <<name>>
          [] kind = "field" -> <<name, Symbol("TColon"), value>>
          [] kind = "notfield" -> <<Symbol("TNot"), name, Symbol("TColon"), value>>

RECURSIVE Chain(_, _)
\* x1 c1 x2 ... xn: the operands joined by AND, OR or nothing (juxtaposition)
Chain(kinds, conns) ==
    LET n == Len(kinds)
    IN  IF n = 1 THEN Operand(kinds[1], 1)
        ELSE Chain(SubSeq(kinds, 1, n - 1), SubSeq(conns, 1, n - 2))
             \o (IF conns[n - 1] = "none" THEN <<>> ELSE <<Symbol(conns[n - 1])>>)
             \o Operand(kinds[n], n)

ChainQueries ==
    UNION {{Chain(kinds, conns) :
               kinds \in [1..n -> {"word", "field", "notfield"}],
               conns \in [1..(n - 1) -> {"TAnd", "TOr", "none"}]} : n \in 1..MaxOperands}

RECURSIVE Group(_)
\* v1 OR v2 ... OR vn
Group(vals) ==
    IF Len(vals) = 1 THEN vals
    ELSE Group(SubSeq(vals, 1, Len(vals) - 1)) \o <<Symbol("TOr"), vals[Len(vals)]>>

\* field:(v1 OR ... OR vn)
GroupQueries ==
    UNION {{<<Word(<<"a">>), Symbol("TColon"), Symbol("TLParen")>> \o Group(vals)
              \o <<Symbol("TRParen")>> :
               vals \in [1..n -> {Word(<<"b">>), Word(<<"5">>), Tok("TQuoted", <<"\"", "x", " ", "y", "\"">>)}]}
           : n \in 1..MaxList}

\* a value alone, and two values joined by AND: terms without a field
TermQueries ==
    {<<v>> : v \in Values} \cup {<<v, Symbol("TAnd"), w>> : v, w \in Values}

\* a range or group query with one of its tokens left out: a missing
\* bracket or parenthesis, a missing TO, bound, value or field
TruncatedQueries ==
    UNION {{SubSeq(q, 1, i - 1) \o SubSeq(q, i + 1, Len(q)) : i \in 1..Len(q)} :
               q \in RangeQueries \cup GroupQueries}

\* a term or field:value followed by ~ or ^ and possibly a number or word:
\* alone, as the right operand of AND, and followed by an operator that has
\* no right operand
ScoredQueries ==
    LET scored ==
            {q \o <<Symbol(op)>> \o n :
                q \in {<<Word(<<"a">>)>>, <<Word(<<"a">>), Symbol("TColon"), Word(<<"b">>)>>,
                       <<Word(<<"a">>), Symbol("TColon"), Word(<<"*">>)>>,
                       <<Word(<<"a", "\\", "\"", "b">>), Symbol("TColon"), Word(<<"b">>)>>},
                op \in {"TTilde", "TCarrot"},
                n \in {<<>>, <<Word(<<"0">>)>>, <<Word(<<"-", "1">>)>>, <<Word(<<"2">>)>>,
                       <<Word(<<"1", ".", "5">>)>>, <<Word(<<"b">>)>>}}
    IN  scored \cup {<<Word(<<"c">>), Symbol("TAnd")>> \o q : q \in scored}
        \cup {q \o <<Symbol(op)>> : q \in scored, op \in {"TColon", "TAnd", "TGreater"}}

\* the precedence example of the README
ExampleQuery ==
    <<Word(<<"a">>), Symbol("TOr"), Word(<<"b">>), Symbol("TAnd"), Word(<<"c">>), Symbol("TColon"),
      Symbol("TLSquare"), Word(<<"*">>), Symbol("TTO"), Word(<<"-", "1">>), Symbol("TRSquare"),
      Symbol("TOr"), Word(<<"d">>), Symbol("TAnd"), Symbol("TNot"), Symbol("TPlus"),
      Word(<<"e">>), Symbol("TColon"), Word(<<"f">>)>>

Queries ==
    FreeQueries \cup FieldQueries \cup RangeQueries \cup ChainQueries
    \cup GroupQueries \cup TermQueries \cup TruncatedQueries \cup ScoredQueries
    \cup {ExampleQuery}

(***************************************************************************)
(* The state machine: Parse on one query, step by step, then the calls on  *)
(* its result                                                              *)
(***************************************************************************)
\* not yet called
None == [kind |-> "none"]

\* the parser of Parse(input, WithDefaultField(defaultField))
Init ==
    /\ source = <<>>
    /\ lexer = Lex(source)
    /\ input \in Queries
    /\ defaultField \in {<<>>, <<"d">>}
    /\ pos = newParser.pos
    /\ stack = newParser.stack
    /\ nonTerminals = newParser.nt
    /\ pc = newParser.pc
    /\ result = newParser.result
    /\ sql = None
    /\ psql = None
    /\ roundTrip = None
    /\ decoded = None

parser == [pos |-> pos, stack |-> stack, nt |-> nonTerminals, pc |-> pc, result |-> result]

Becomes(s) ==
    /\ pos' = s.pos
    /\ stack' = s.stack
    /\ nonTerminals' = s.nt
    /\ pc' = s.pc
    /\ result' = s.result
    /\ UNCHANGED <<source, lexer, input, defaultField, sql, psql, roundTrip, decoded>>

\* an iteration of parser.parse that accepts
StepAccept ==
    /\ pc = "parse"
    /\ branch(parser, input) = "accept"
    /\ Becomes(acceptStep(parser, defaultField))

\* an iteration of parser.parse that shifts (or panics deciding whether to)
StepShift ==
    /\ pc = "parse"
    /\ branch(parser, input) \in {"shift", "panic"}
    /\ Becomes(IF nonTerminals = <<>> THEN Failed(parser, "panic")
               ELSE shiftStep(parser, input, defaultField))

\* an iteration of parser.parse that reduces
StepReduce ==
    /\ pc = "parse"
    /\ branch(parser, input) = "reduce"
    /\ Becomes(reduceStep(parser, defaultField))

\* Parse after parse() returned a tree: Validate
StepValidate ==
    /\ pc = "parsed"
    /\ Becomes(IF Validate(result) THEN [parser EXCEPT !.pc = "valid"]
               ELSE Failed(parser, "error"))

\* ToPostgres(input): the error of Parse or the rendering of its tree
CallToPostgres ==
    /\ pc \in {"valid", "error"}
    /\ sql = None
    /\ sql' = IF pc = "valid" THEN Render(result) ELSE Error("parse")
    /\ UNCHANGED <<source, lexer, input, defaultField, pos, stack, nonTerminals, pc, result, psql,
                   roundTrip, decoded>>

\* ToParameterizedPostgres(input)
CallToParameterizedPostgres ==
    /\ pc \in {"valid", "error"}
    /\ psql = None
    /\ psql' = IF pc = "valid" THEN PostgresRenderParam(result) ELSE Error("parse")
    /\ UNCHANGED <<source, lexer, input, defaultField, pos, stack, nonTerminals, pc, result, sql,
                   roundTrip, decoded>>

\* json.Marshal of the tree and json.Unmarshal of the text
CallJSON ==
    /\ pc = "valid"
    /\ roundTrip = None
    /\ roundTrip' = UnmarshalJSON(MarshalJSON(result))
    /\ UNCHANGED <<source, lexer, input, defaultField, pos, stack, nonTerminals, pc, result, sql,
                   psql, decoded>>

\* the JSON texts handed to json.Unmarshal: the encoding of the tree and, for
\* a Range, the same text with the key "inclusive" left out, true and false
Documents(e) ==
    LET variants(doc) ==
            IF doc.kind = "jobj" /\ doc.right # Nil /\ doc.right.kind = "jbound"
            THEN {[doc EXCEPT !.right.inclusive = b] : b \in {"absent", "true", "false"}}
            ELSE {doc}
    IN  variants(MarshalJSON(e))

\* json.Unmarshal of a JSON text into an Expression
CallUnmarshalJSON ==
    /\ pc = "valid"
    /\ decoded = None
    /\ \E doc \in Documents(result) :
           decoded' = [document |-> doc, tree |-> UnmarshalJSON(doc)]
    /\ UNCHANGED <<source, lexer, input, defaultField, pos, stack, nonTerminals, pc, result, sql,
                   psql, roundTrip>>

Next ==
    \/ StepAccept
    \/ StepShift
    \/ StepReduce
    \/ StepValidate
    \/ CallToPostgres
    \/ CallToParameterizedPostgres
    \/ CallJSON
    \/ CallUnmarshalJSON

Spec == Init /\ [][Next]_vars

(***************************************************************************)
(* The same machine on a query string: the lexer turns the string into the *)
(* token stream, one Lexer.Next at a time, and the parser runs on it       *)
(***************************************************************************)
\* the longest query string
MaxText == 4

\* every string up to MaxText over a letter, the escape, a wildcard, the
\* delimiters of a phrase and of a regexp, a symbol and the blank; and
\* queries with single-quoted phrases, with the operator words in upper,
\* lower and mixed case, and with ! and NOT before a term
Texts ==
    UNION {[1..n -> {"a", "\\", "*", "\"", "/", ":", " "}] : n \in 0..MaxText}
    \cup {<<"'", "a", "'">>, <<"'", "a", " ", "b", "'">>, <<"'", "a", "\"", "b", "'">>, <<"\"", "a", "'", "b", "\"">>, <<"c", ":", "'", "a", "'">>,
          <<"a", " ", "A", "N", "D", " ", "b">>, <<"a", " ", "a", "n", "d", " ", "b">>, <<"a", " ", "A", "n", "d", " ", "b">>, <<"a", " ", "O", "R", " ", "b">>, <<"a", " ", "o", "r", " ", "b">>, <<"a", " ", "o", "R", " ", "b">>,
          <<"N", "O", "T", " ", "a">>, <<"n", "o", "t", " ", "a">>, <<"N", "o", "t", " ", "a">>, <<"a", ":", "[", "1", " ", "T", "O", " ", "2", "]">>, <<"a", ":", "[", "1", " ", "t", "o", " ", "2", "]">>, <<"a", ":", "[", "1", " ", "T", "o", " ", "2", "]">>,
          <<"a", "n", "d">>, <<"o", "r", ":", "b">>, <<"t", "o">>, <<"n", "o", "t">>,
          <<"!", "a">>, <<"!", "\"", "a", "\"">>, <<"a", " ", "!", "b">>, <<"a", " ", "N", "O", "T", " ", "b">>, <<"\"", "a", "\"", " ", "!", "\"", "b", " ", "c", "\"">>, <<"\"", "a", "\"", " ", "N", "O", "T", " ", "\"", "b", " ", "c", "\"">>,
          <<"a", " ", "A", "N", "D", " ", "!", "b">>, <<"a", " ", "A", "N", "D", " ", "N", "O", "T", " ", "b">>, <<"!", "a", ":", "b">>, <<"N", "O", "T", " ", "a", ":", "b">>}

\* Parse(source, WithDefaultField(defaultField))
LexInit ==
    /\ source \in Texts
    /\ lexer = Lex(source)
    /\ input = <<>>
    /\ defaultField \in {<<>>, <<"d">>}
    /\ pos = newParser.pos
    /\ stack = newParser.stack
    /\ nonTerminals = newParser.nt
    /\ pc = "lex"
    /\ result = newParser.result
    /\ sql = None
    /\ psql = None
    /\ roundTrip = None
    /\ decoded = None

\* Lexer.Next: the token joins the stream; after the end of the string (or
\* after an error, which empties the string) the parser starts
Scan ==
    /\ pc = "lex"
    /\ lexer' = LexerNext(lexer)
    /\ input' = IF lexer'.currItem.typ = "TEOF" THEN input ELSE Append(input, lexer'.currItem)
    /\ pc' = IF lexer'.currItem.typ = "TEOF" THEN "parse" ELSE "lex"
    /\ UNCHANGED <<source, defaultField, pos, stack, nonTerminals, result, sql, psql, roundTrip,
                   decoded>>

LexSpec == LexInit /\ [][Scan \/ Next]_vars

(***************************************************************************)
(* Properties                                                              *)
(***************************************************************************)
\* C1: Parse returns an error or a tree (it does not panic), and every node
\* of a returned tree satisfies the invariant of its operator: Range has a
\* column marker as left and a boundary with min and max as right; Equals,
\* the comparisons, Like and In have a column marker or a literal-bearing
\* leaf as left and a right; Like.right is Wild or Regexp; In.right is a
\* List; And and Or have both children; Not, Must, MustNot, Boost and Fuzzy
\* have a left and no right.
C1_ParseReturnsValidTree ==
    LET columnMarker(x) == IsExpr(x) /\ x.op = "Literal" /\ isColumn(x.left)
        leaf(x) == IsExpr(x) /\ x.op \in {"Literal", "Wild", "Regexp"} /\ isLiteral(x.left)
        node(e) ==
            CASE e.op = "Range" ->
                    /\ columnMarker(e.left)
                    /\ e.right.kind = "boundary"
                    /\ e.right.min # Nil
                    /\ e.right.max # Nil
              [] e.op \in {"Equals", "Greater", "Less", "GreaterEq", "LessEq"} ->
                    (columnMarker(e.left) \/ leaf(e.left)) /\ e.right # Nil
              [] e.op = "Like" ->
                    /\ columnMarker(e.left) \/ leaf(e.left)
                    /\ IsExpr(e.right)
                    /\ e.right.op \in {"Wild", "Regexp"}
              [] e.op = "In" ->
                    /\ columnMarker(e.left) \/ leaf(e.left)
                    /\ IsExpr(e.right)
                    /\ e.right.op = "List"
              [] e.op \in {"And", "Or"} -> e.left # Nil /\ e.right # Nil
              [] e.op \in {"Not", "Must", "MustNot", "Boost", "Fuzzy"} ->
                    e.left # Nil /\ e.right = Nil
              [] e.op \in {"Literal", "Wild", "Regexp"} -> isLiteral(e.left) /\ e.right = Nil
              [] e.op = "List" -> e.left.kind = "list" /\ e.right = Nil
              [] OTHER -> FALSE
        RECURSIVE tree(_)
        tree(v) ==
            CASE v.kind = "expr" -> node(v) /\ tree(v.left) /\ tree(v.right)
              [] v.kind = "boundary" -> tree(v.min) /\ tree(v.max)
              [] v.kind = "list" -> \A i \in 1..Len(v.items) : tree(v.items[i])
              [] OTHER -> TRUE
    IN  /\ pc # "panic"
        /\ pc = "valid" => tree(result)

\* C2: every iteration of the loop in parser.parse consumes one token of the
\* lexer, or strictly shrinks a non-empty stack, or returns; and the measure
\* 3 * (tokens left) + (stack height) strictly decreases from one iteration to
\* the next, so parse returns after finitely many iterations.
C2_EveryIterationProgresses ==
    [][pc = "parse" =>
         /\ \/ pos' = pos + 1
            \/ stack # <<>> /\ Len(stack') < Len(stack)
            \/ pc' # "parse"
         /\ pc' = "parse" =>
                3 * (Len(input) + 1 - pos') + Len(stack')
                    < 3 * (Len(input) + 1 - pos) + Len(stack)
         /\ pos' <= Len(input) + 1]_vars

\* a parse that shifted every token, reduced at least once and was accepted
C2_Witness ==
    /\ pc = "parsed"
    /\ Len(input) >= 3
    /\ pos = Len(input) + 1
    /\ Len(stack) = 1

\* C3: when ToParameterizedPostgres succeeds, the number of $N placeholders
\* in the SQL text equals the length of the parameter list.
C3_PlaceholdersMatchParams ==
    LET placeholder(s, i) == s[i] = "$" /\ i < Len(s) /\ IsDigit(s[i + 1])
    IN  (psql # None /\ psql.st = "ok") =>
            Cardinality({i \in 1..Len(psql.s) : placeholder(psql.s, i)}) = Len(psql.params)

\* C4: ToPostgres and ToParameterizedPostgres agree on every query: both fail
\* or both succeed, and when they succeed, the parameterized SQL with each
\* $i replaced by the SQL serialization of params[i] is the ToPostgres query
\* (word for word, numbers compared by value).
C4_RendersAgree ==
    LET RECURSIVE digits(_)
        digits(s) == IF s # <<>> /\ IsDigit(Head(s)) THEN <<Head(s)>> \o digits(Tail(s)) ELSE <<>>
        RECURSIVE substitute(_, _)
        substitute(s, params) ==
            IF s = <<>> THEN <<>>
            ELSE LET n == digits(Tail(s))
                     i == DigitsVal(n)
                 IN  IF Head(s) = "$" /\ n # <<>> /\ i \in 1..Len(params)
                     THEN serialize(params[i]).s
                          \o substitute(SubSeq(s, Len(n) + 2, Len(s)), params)
                     ELSE <<Head(s)>> \o substitute(Tail(s), params)
        core(w) == Trim(Trim(w, "("), ")")
        sameWord(v, w) ==
            \/ v = w
            \/ /\ Len(v) - Len(core(v)) = Len(w) - Len(core(w))
               /\ ParseFloat(core(v)).ok
               /\ ParseFloat(core(w)).ok
               /\ ParseFloat(core(v)).m = ParseFloat(core(w)).m
        same(s, t) ==
            LET vs == Split(s, " ")
                ws == Split(t, " ")
            IN  Len(vs) = Len(ws) /\ \A i \in 1..Len(vs) : sameWord(vs[i], ws[i])
    IN  (sql # None /\ psql # None) =>
            /\ (sql.st = "ok") <=> (psql.st = "ok")
            /\ (sql.st = "ok" /\ psql.st = "ok") =>
                   same(substitute(psql.s, psql.params), sql.s)

\* C5: when ToParameterizedPostgres succeeds, no string or number value of
\* the query appears in the SQL text: outside the double-quoted column names
\* and the $N placeholders the text contains no value of the tree other than
\* the sentinel *, and every such value (for a Like, with its wildcards
\* translated) is in the parameter list.
C5_ParameterizedIsInjectionSafe ==
    LET RECURSIVE values(_)
        values(v) ==
            CASE v.kind = "expr" ->
                    IF v.op \in {"Literal", "Wild", "Regexp"}
                    THEN IF isColumn(v.left) THEN {} ELSE {v.left}
                    ELSE values(v.left) \cup values(v.right)
              [] v.kind = "boundary" -> values(v.min) \cup values(v.max)
              [] v.kind = "list" -> UNION {values(v.items[i]) : i \in 1..Len(v.items)}
              [] OTHER -> {}
        RECURSIVE outside(_, _)
        \* the text outside "column" names and $N placeholders
        outside(s, skipping) ==
            IF s = <<>> THEN <<>>
            ELSE IF skipping = "column"
            THEN outside(Tail(s), IF Head(s) = "\"" THEN "no" ELSE "column")
            ELSE IF skipping = "index" /\ IsDigit(Head(s)) THEN outside(Tail(s), "index")
            ELSE IF Head(s) = "\"" THEN <<" ">> \o outside(Tail(s), "column")
            ELSE IF Head(s) = "$" THEN <<" ">> \o outside(Tail(s), "index")
            ELSE <<Head(s)>> \o outside(Tail(s), "no")
        occurs(t, s) ==
            \E i \in 1..(Len(s) - Len(t) + 1) : SubSeq(s, i, i + Len(t) - 1) = t
        translated(v) ==
            IF isString(v)
            THEN StrV(ReplaceAll(ReplaceAll(v.s, "*", <<"%">>), "?", <<"_">>))
            ELSE v
        carried(v) ==
            \E i \in 1..Len(psql.params) : psql.params[i] \in {v, translated(v)}
    IN  (psql # None /\ psql.st = "ok") =>
            \A v \in values(result) :
                (v # StrV(<<"*">>) /\ FmtV(v) # <<>>) =>
                    /\ ~occurs(FmtV(v), outside(psql.s, "no"))
                    /\ carried(v)

\* a parameterized query with a column name inline and two values carried
C5_Witness ==
    /\ psql # None
    /\ psql.st = "ok"
    /\ Len(psql.params) >= 2
    /\ Contains(psql.s, "\"")
    /\ \E i \in 1..Len(psql.params) : isString(psql.params[i])
    /\ \E i \in 1..Len(psql.params) : isNum(psql.params[i])


\* C6: for every input that parses successfully, decoding the JSON encoding
\* of the parsed tree succeeds and yields a tree equal to the parsed one
\* (same operators, same leaf kinds and values, same structure), a float
\* with a whole value counting as the integer of that value.
C6_JSONRoundTrip ==
    LET RECURSIVE norm(_)
        norm(v) ==
            CASE v.kind = "float" ->
                    IF v.m % 1000 = 0 THEN IntV(v.m \div 1000) ELSE v
              [] v.kind = "expr" ->
                    [v EXCEPT !.left = norm(v.left), !.right = norm(v.right)]
              [] v.kind = "list" ->
                    [v EXCEPT !.items = [i \in 1..Len(v.items) |-> norm(v.items[i])]]
              [] v.kind = "boundary" ->
                    [v EXCEPT !.min = norm(v.min), !.max = norm(v.max)]
              [] OTHER -> v
    IN  roundTrip # None =>
            /\ IsExpr(roundTrip)
            /\ norm(roundTrip) = norm(result)


\* C7: whenever a token that ends a sub-query (a literal or a closing
\* bracket) is directly followed by a literal, Parse of the input has the
\* same outcome as Parse of the input with AND written between the two: both
\* fail, or both succeed with the same tree.
C7_JuxtapositionIsAnd ==
    LET leafTypes == {"TLiteral", "TQuoted", "TRegexp"}
        closers == {"TRParen", "TRSquare", "TRCurly"}
        adjacent(i) ==
            /\ input[i].typ \in leafTypes \cup closers
            /\ input[i + 1].typ \in leafTypes
        withAnd(i) ==
            SubSeq(input, 1, i) \o <<Symbol("TAnd")>> \o SubSeq(input, i + 1, Len(input))
        explicit(i) == Parse(withAnd(i), defaultField)
    IN  pc \in {"valid", "error", "panic"} =>
            \A i \in 1..(Len(input) - 1) :
                adjacent(i) =>
                    /\ (pc = "valid") <=> (explicit(i).pc = "parsed")
                    /\ pc = "valid" => explicit(i).result = result


\* C8: in a parenthesis-free query that parses, field operators bind tighter
\* than NOT, NOT tighter than AND and AND tighter than OR, wherever the
\* operators stand: the parsed tree is an Or over the pieces between the ORs,
\* each piece an And over the pieces between its ANDs (written or inserted
\* between juxtaposed neighbours), each of those a field expression under its
\* NOT, + and - prefixes.  Chains of one operator are compared as flat
\* groups, so that the nesting within a chain plays no part.
C8_PrecedenceGrouping ==
    LET leafTypes == {"TLiteral", "TQuoted", "TRegexp"}
        closers == {"TRSquare", "TRCurly"}
        scope == leafTypes \cup closers
                 \cup {"TColon", "TEqual", "TGreater", "TLess", "TPlus", "TMinus",
                       "TNot", "TAnd", "TOr", "TLSquare", "TLCurly", "TTO"}
        RECURSIVE written(_)
        \* the query with AND written between juxtaposed neighbours
        written(seq) ==
            IF Len(seq) < 2 THEN seq
            ELSE <<seq[1]>>
                 \o (IF seq[1].typ \in leafTypes \cup closers /\ seq[2].typ \in leafTypes
                     THEN <<Symbol("TAnd")>> ELSE <<>>)
                 \o written(Tail(seq))
        RECURSIVE split(_, _)
        split(seq, typ) ==
            IF \A i \in 1..Len(seq) : seq[i].typ # typ THEN <<seq>>
            ELSE LET i == CHOOSE k \in 1..Len(seq) :
                              seq[k].typ = typ /\ \A j \in 1..(k - 1) : seq[j].typ # typ
                 IN  <<SubSeq(seq, 1, i - 1)>> \o split(SubSeq(seq, i + 1, Len(seq)), typ)
        group(op, items) == [kind |-> "group", op |-> op, items |-> items]
        wrap(x) == IF x = Nil THEN Nil ELSE wrapLiteral(x, defaultField)
        RECURSIVE prefixed(_)
        prefixed(p) ==
            IF p = <<>> THEN Nil
            ELSE IF p[1].typ = "TNot"
            THEN [empty EXCEPT !.op = "Not", !.left = wrap(prefixed(Tail(p)))]
            ELSE IF p[1].typ = "TPlus"
            THEN [empty EXCEPT !.op = "Must", !.left = prefixed(Tail(p))]
            ELSE IF p[1].typ = "TMinus"
            THEN [empty EXCEPT !.op = "MustNot", !.left = prefixed(Tail(p))]
            ELSE IF \E i \in 1..Len(p) : p[i].typ \in {"TNot", "TPlus", "TMinus"} THEN Nil
            ELSE LET s == parse(p, <<>>)
                 IN  IF s.pc = "parsed" THEN s.result ELSE Nil
        conj(seq) ==
            LET parts == split(seq, "TAnd")
            IN  IF Len(parts) = 1 THEN prefixed(seq)
                ELSE group("And", [i \in 1..Len(parts) |-> wrap(prefixed(parts[i]))])
        disj(seq) ==
            LET parts == split(seq, "TOr")
            IN  IF Len(parts) = 1 THEN conj(seq)
                ELSE group("Or", [i \in 1..Len(parts) |-> wrap(conj(parts[i]))])
        RECURSIVE flat(_), items(_, _)
        flat(e) ==
            IF ~IsExpr(e) THEN e
            ELSE IF e.op \in {"And", "Or"} THEN group(e.op, items(e, e.op))
            ELSE IF e.op \in {"Not", "Must", "MustNot"} THEN [e EXCEPT !.left = flat(e.left)]
            ELSE e
        items(e, op) ==
            IF IsExpr(e) /\ e.op = op THEN items(e.left, op) \o items(e.right, op)
            ELSE <<flat(e)>>
    IN  (/\ pc = "valid"
         /\ \A i \in 1..Len(input) : input[i].typ \in scope
         /\ \E i \in 1..Len(written(input)) : written(input)[i].typ \in {"TNot", "TAnd", "TOr"})
        => flat(result) = disj(written(input))


\* C9: a parenthesis-free chain  x1 OP x2 OP ... OP xn  of three or more
\* operands joined by one written operator, all AND or all OR, parses to the
\* left-nested tree ((x1 OP x2) OP x3) ... OP xn of its operands.
C9_LeftAssociative ==
    LET leafTypes == {"TLiteral", "TQuoted", "TRegexp"}
        operandTypes == leafTypes \cup {"TColon", "TEqual", "TGreater", "TLess", "TNot"}
        count(typ) == Cardinality({i \in 1..Len(input) : input[i].typ = typ})
        juxtaposed == \E i \in 1..(Len(input) - 1) :
                          input[i].typ \in leafTypes /\ input[i + 1].typ \in leafTypes
        OP == IF count("TAnd") > 0 THEN "TAnd" ELSE "TOr"
        RECURSIVE operands(_)
        \* the token runs between the operators
        operands(seq) ==
            IF \A i \in 1..Len(seq) : seq[i].typ # OP THEN <<seq>>
            ELSE LET i == CHOOSE k \in 1..Len(seq) :
                              seq[k].typ = OP /\ \A j \in 1..(k - 1) : seq[j].typ # OP
                 IN  <<SubSeq(seq, 1, i - 1)>> \o operands(SubSeq(seq, i + 1, Len(seq)))
        x(i) == parse(operands(input)[i], defaultField).result
        RECURSIVE leftNested(_)
        leftNested(n) ==
            IF n = 1 THEN x(1)
            ELSE IF OP = "TAnd" THEN AND(leftNested(n - 1), x(n))
            ELSE OR(leftNested(n - 1), x(n))
    IN  (/\ pc = "valid"
         /\ \A i \in 1..Len(input) : input[i].typ \in operandTypes \cup {"TAnd", "TOr"}
         /\ ~juxtaposed
         /\ (count("TAnd") = 0) # (count("TOr") = 0)
         /\ count(OP) >= 2)
        => result = leftNested(count(OP) + 1)

C9_Witness ==
    /\ pc = "valid"
    /\ Len(SelectSeq(input, LAMBDA t : t.typ = "TOr")) = 2
    /\ \A i \in 1..Len(input) : input[i].typ \in {"TLiteral", "TColon", "TNot", "TOr"}
    /\ \A i \in 1..(Len(input) - 1) : input[i].typ = "TLiteral" => input[i + 1].typ # "TLiteral"
    /\ input[1].typ = "TNot"
    /\ result.op = "Or"
    /\ result.left.op = "Or"
    /\ result.left.left.op = "Not"


\* C10: with or without a default field, a query  field:(v1 OR ... OR vn)
\* with n >= 2 literal values parses to In(Column(field), List[v1, ..., vn])
\* with the values in source order, and ToPostgres renders it as
\* "field" IN (v1, ..., vn).
C10_GroupParsesToIn ==
    LET leafTypes == {"TLiteral", "TQuoted"}
        n == (Len(input) - 3) \div 2
        shape ==
            /\ Len(input) >= 7
            /\ Len(input) = 2 * n + 3
            /\ input[1].typ = "TLiteral"
            /\ input[2].typ = "TColon"
            /\ input[3].typ = "TLParen"
            /\ input[Len(input)].typ = "TRParen"
            /\ \A k \in 1..n : input[2 * k + 2].typ \in leafTypes
            /\ \A k \in 1..(n - 1) : input[2 * k + 3].typ = "TOr"
        v(k) == parseLiteral(input[2 * k + 2])
        values == [k \in 1..n |-> v(k)]
        text(k) == IF isString(v(k).left) THEN <<"'">> \o v(k).left.s \o <<"'">>
                   ELSE input[2 * k + 2].val
        RECURSIVE listed(_)
        listed(k) == IF k = 1 THEN text(1) ELSE listed(k - 1) \o <<",", " ">> \o text(k)
    IN  (shape /\ pc \in {"valid", "error", "panic"}) =>
            /\ pc = "valid"
            /\ result.op = "In"
            /\ result.left = Lit(Column(input[1].val))
            /\ result.right.op = "List"
            /\ result.right.left = [kind |-> "list", items |-> values]
            /\ sql # None =>
                 /\ sql.st = "ok"
                 /\ sql.s = <<"\"">> \o input[1].val \o <<"\"", " ", "I", "N", " ", "(">>
                            \o listed(n) \o <<")">>

\* C11: with a non-empty default field, the tree returned by Parse has no
\* bare Literal leaf at the root, in an arm of And/Or, under Not or under
\* Must/MustNot: every such term is Equals(Column(defaultField), literal).
C11_DefaultFieldWrapsEveryTerm ==
    LET RECURSIVE wrapped(_)
        wrapped(e) ==
            CASE e.op \in {"And", "Or"} -> wrapped(e.left) /\ wrapped(e.right)
              [] e.op \in {"Not", "Must", "MustNot"} -> wrapped(e.left)
              [] e.op = "Literal" -> FALSE
              [] OTHER -> TRUE
    IN  (pc = "valid" /\ defaultField # <<>>) => wrapped(result)

\* C12: when exactly one bound of a Range is the wildcard *, ToPostgres and
\* ToParameterizedPostgres both render a single comparison  left OP bound
\* against the other bound and no text mentioning *, whatever the type of
\* the other bound and whichever brackets are used.
C12_WildcardBoundElided ==
    LET star(x) == IsExpr(x) /\ x.op = "Wild" /\ x.left = StrV(<<"*">>)
        oneStar ==
            /\ pc = "valid"
            /\ result.op = "Range"
            /\ result.right.kind = "boundary"
            /\ star(result.right.min) # star(result.right.max)
        spaces(s) == Cardinality({i \in 1..Len(s) : s[i] = " "})
        single(r) == r.st = "ok" /\ ~Contains(r.s, "*") /\ spaces(r.s) = 2
    IN  oneStar => /\ sql # None => single(sql)
                   /\ psql # None => single(psql)

\* C13: no tree built by the parser (on its stack or returned) has an
\* Equals node whose right operand is a Wild or Regexp leaf: Expr turns
\* every such node into a Like.
C13_EqualsWithPatternIsLike ==
    LET RECURSIVE promoted(_)
        promoted(x) ==
            CASE x.kind = "expr" ->
                    /\ ~(x.op = "Equals" /\ IsExpr(x.right) /\ x.right.op \in {"Wild", "Regexp"})
                    /\ promoted(x.left)
                    /\ promoted(x.right)
              [] x.kind = "list" -> \A i \in 1..Len(x.items) : promoted(x.items[i])
              [] x.kind = "boundary" -> promoted(x.min) /\ promoted(x.max)
              [] OTHER -> TRUE
    IN  /\ promoted(result)
        /\ \A i \in 1..Len(stack) : promoted(stack[i])

\* C14: when the lexer has produced an Err token (unterminated quote,
\* unterminated regexp or unrecognized rune), the parser never shifts it and
\* never accepts: parse is still running or has returned an error, without
\* a tree, however many well-formed tokens precede the Err token.
C14_ErrTokenFailsParse ==
    LET errors == {i \in 1..Len(input) : input[i].typ = "TErr"}
    IN  (pc # "lex" /\ errors # {}) =>
            /\ pc \in {"parse", "error"}
            /\ result = Nil
            /\ \A i \in errors : pos <= i

\* parse has failed on a string whose well-formed prefix  field:value  was
\* shifted and reduced before the lexer reported the unterminated quote
C14_Witness ==
    /\ pc = "error"
    /\ Len(input) = 4
    /\ input[2].typ = "TColon"
    /\ input[4] = Tok("TErr", <<"u", "n", "t", "e", "r", "m", "i", "n", "a", "t", "e", "d", " ", "q", "u", "o", "t", "e">>)
    /\ pos = 4

\* C15: parse returns a tree only when the whole input is consumed and the
\* stack holds exactly one element, an expression; parse never stops in
\* another way than by an error when that is not so, and it returns an error
\* on the empty input, on an input that starts with a binary operator or
\* ends with a binary or prefix operator, and on an input whose parentheses
\* or range brackets are not balanced.
C15_AcceptsOnlyCompleteInput ==
    LET binary == {"TAnd", "TOr", "TColon", "TEqual", "TGreater", "TLess", "TTO"}
        prefix == {"TNot", "TPlus", "TMinus"}
        count(types) == Cardinality({i \in 1..Len(input) : input[i].typ \in types})
        incomplete ==
            \/ input = <<>>
            \/ input[1].typ \in binary
            \/ input[Len(input)].typ \in binary \cup prefix
            \/ count({"TLParen"}) # count({"TRParen"})
            \/ count({"TLSquare", "TLCurly"}) # count({"TRSquare", "TRCurly"})
        complete == pos = Len(input) + 1 /\ Len(stack) = 1 /\ IsExpr(stack[1])
    IN  /\ pc \in {"parsed", "valid"} => complete
        /\ (incomplete /\ pc \notin {"lex", "parse"}) => (pc = "error" /\ result = Nil)
        /\ pc = "panic" => complete

\* C16: an error comes with an empty result: Parse returns no tree, and
\* ToPostgres and ToParameterizedPostgres return the empty string and, for
\* the latter, an empty parameter list.
C16_NoPartialResultOnError ==
    /\ pc = "error" => result = Nil
    /\ (sql # None /\ sql.st = "err") => sql.s = <<>>
    /\ (psql # None /\ psql.st = "err") => (psql.s = <<>> /\ psql.params = <<>>)

\* C17: a tree with a Boost or Fuzzy node at any depth does not render:
\* ToPostgres and ToParameterizedPostgres both return an error whose message
\* begins "unable to render operator", and no SQL.
C17_ScoringOperatorsDoNotRender ==
    LET RECURSIVE scoring(_)
        scoring(x) ==
            CASE x.kind = "expr" ->
                    x.op \in {"Boost", "Fuzzy"} \/ scoring(x.left) \/ scoring(x.right)
              [] x.kind = "list" -> \E i \in 1..Len(x.items) : scoring(x.items[i])
              [] x.kind = "boundary" -> scoring(x.min) \/ scoring(x.max)
              [] OTHER -> FALSE
        refused(r) == r.st = "err" /\ r.msg = "unable to render operator" /\ r.s = <<>>
    IN  (pc = "valid" /\ scoring(result)) =>
            /\ sql # None => refused(sql)
            /\ psql # None => refused(psql)

\* C18: in literal and in parameterized mode rendering returns an error
\* whenever a column name of the tree is empty or contains a double quote;
\* otherwise a successful rendering holds every column as its name enclosed
\* in double quotes.
C18_ColumnNamesQuoted ==
    LET RECURSIVE cols(_)
        cols(x) ==
            CASE x.kind = "col" -> {x.s}
              [] x.kind = "expr" -> cols(x.left) \cup cols(x.right)
              [] x.kind = "list" -> UNION {cols(x.items[i]) : i \in 1..Len(x.items)}
              [] x.kind = "boundary" -> cols(x.min) \cup cols(x.max)
              [] OTHER -> {}
        unquotable(name) == Len(name) = 0 \/ Contains(name, "\"")
        occurs(w, s) == \E i \in 1..(Len(s) - Len(w) + 1) : SubSeq(s, i, i + Len(w) - 1) = w
        emitted(r, names) ==
            IF \E name \in names : unquotable(name) THEN r.st = "err"
            ELSE r.st = "ok" =>
                     \A name \in names : occurs(<<"\"">> \o name \o <<"\"">>, r.s)
    IN  pc = "valid" =>
            /\ sql # None => emitted(sql, cols(result))
            /\ psql # None => emitted(psql, cols(result))

\* C19: every Fuzzy node of a tree returned by Parse has a fuzzyDistance
\* that is an integer >= 1, whatever token follows the ~; when no ~ of the
\* input is followed by a literal, the distance is 1.
C19_FuzzyDistancePositive ==
    LET RECURSIVE distances(_)
        distances(x) ==
            CASE x.kind = "expr" ->
                    (IF x.op = "Fuzzy" THEN {x.fuzzyDistance} ELSE {})
                        \cup distances(x.left) \cup distances(x.right)
              [] x.kind = "list" -> UNION {distances(x.items[i]) : i \in 1..Len(x.items)}
              [] x.kind = "boundary" -> distances(x.min) \cup distances(x.max)
              [] OTHER -> {}
        given == \E i \in 1..(Len(input) - 1) :
                     input[i].typ = "TTilde" /\ input[i + 1].typ = "TLiteral"
    IN  pc \in {"parsed", "valid"} =>
            /\ \A n \in distances(result) : n \in Nat /\ n >= 1
            /\ ~given => distances(result) \subseteq {1}

\* C20: in a bare literal, a quoted phrase and a regex body a backslash
\* escapes the rune after it: the closing delimiter of a phrase or regex
\* token is not a rune preceded by an escaping backslash, and no token ends
\* on an escaping backslash while the string goes on (the escaped rune would
\* terminate the token or start the next one).
C20_BackslashEscapesNextRune ==
    LET tok == lexer.currItem
        RECURSIVE escaped(_, _)
        \* the rune i of the token follows a backslash that is not itself escaped
        escaped(val, i) == i > 1 /\ val[i - 1] = "\\" /\ ~escaped(val, i - 1)
        last == Len(tok.val)
    IN  (pc = "lex" /\ tok.typ \notin {"TErr", "TEOF"} /\ last > 0) =>
            /\ tok.typ \in {"TQuoted", "TRegexp"} => ~escaped(tok.val, last)
            /\ (tok.val[last] = "\\" /\ ~escaped(tok.val, last)) => lexer.pos = Len(source)

\* C21: a bare literal token that is not a number and has no unescaped
\* wildcard parses to a string Literal whose value is the token text with
\* every backslash-x replaced by x (an escaped backslash gives one
\* backslash).  Stated for a query of that one token without default field,
\* where the literal is the tree.
C21_LiteralEscapesReplaced ==
    LET val == input[1].val
        RECURSIVE unescape(_)
        unescape(s) ==
            IF s = <<>> THEN <<>>
            ELSE IF s[1] = "\\" /\ Len(s) >= 2 THEN <<s[2]>> \o unescape(SubSeq(s, 3, Len(s)))
            ELSE <<s[1]>> \o unescape(Tail(s))
        RECURSIVE escaped(_)
        \* the rune i of the token follows an escaping backslash
        escaped(i) == i > 1 /\ val[i - 1] = "\\" /\ ~escaped(i - 1)
        plain == /\ ~Atoi(val).ok /\ ~ParseFloat(val).ok
                 /\ \A i \in 1..Len(val) : val[i] \in {"*", "?"} => escaped(i)
                 /\ ~(val[Len(val)] = "\\" /\ ~escaped(Len(val)))
    IN  (/\ pc \in {"parsed", "valid"} /\ defaultField = <<>>
         /\ Len(input) = 1 /\ input[1].typ = "TLiteral" /\ plain) =>
            result = Lit(StrV(unescape(val)))

\* C22: a bare literal token becomes a Wild leaf only if it holds an
\* unescaped * or ?, and an Equals over a token whose wildcards are all
\* escaped is not promoted to Like.  Stated for the query of one token
\* without default field (the leaf is the tree) and for field:token.
C22_WildNeedsUnescapedWildcard ==
    LET unescaped(val) ==
            LET RECURSIVE escaped(_)
                escaped(i) == i > 1 /\ val[i - 1] = "\\" /\ ~escaped(i - 1)
            IN  \E i \in 1..Len(val) : val[i] \in {"*", "?"} /\ ~escaped(i)
        term == Len(input) = 1 /\ input[1].typ = "TLiteral" /\ defaultField = <<>>
        field == /\ Len(input) = 3
                 /\ input[1].typ = "TLiteral" /\ input[2].typ = "TColon"
                 /\ input[3].typ = "TLiteral"
    IN  pc \in {"parsed", "valid"} =>
            /\ (term /\ result.op = "Wild") => unescaped(input[1].val)
            /\ (field /\ result.op = "Like") => unescaped(input[3].val)

\* C23: a quoted token, delimited by double or by single quotes, parses to
\* the Literal of the text between its two delimiters: the delimiters are
\* removed and nothing else.  Stated for the query of one quoted token
\* without default field, where the literal is the tree.
C23_QuotedKeepsInnerText ==
    LET val == input[1].val
    IN  (/\ pc \in {"parsed", "valid"} /\ defaultField = <<>>
         /\ Len(input) = 1 /\ input[1].typ = "TQuoted") =>
            result = Lit(StrV(SubSeq(val, 2, Len(val) - 1)))

\* C24: only the all-uppercase words AND, OR, NOT and TO are lexed as
\* operator tokens; the same words in lower or mixed case are Literal tokens.
C24_KeywordsAreUppercase ==
    LET keyword == ("TAnd" :> <<"A", "N", "D">>) @@ ("TOr" :> <<"O", "R">>) @@ ("TNot" :> <<"N", "O", "T">>)
                   @@ ("TTO" :> <<"T", "O">>)
    IN  \A i \in 1..Len(input) :
            /\ input[i].typ \in DOMAIN keyword => input[i].val = keyword[input[i].typ]
            /\ input[i].val \in {<<"a", "n", "d">>, <<"A", "n", "d">>, <<"o", "r">>, <<"o", "R">>, <<"n", "o", "t">>, <<"N", "o", "t">>, <<"t", "o">>, <<"T", "o">>}
                   => input[i].typ = "TLiteral"

\* C25: ! is an alias of NOT: a query with ! before a term parses to the
\* tree of the same query with "NOT " in place of the !, and renders as it.
C25_BangIsNot ==
    LET spelled == Parse(Tokens(Lex(ReplaceAll(source, "!", <<"N", "O", "T", " ">>)), <<>>), defaultField)
    IN  (Contains(source, "!") /\ pc \in {"valid", "error"}) =>
            /\ pc = (IF spelled.pc = "parsed" THEN "valid" ELSE "error")
            /\ result = spelled.result
            /\ sql # None => sql = (IF pc = "valid" THEN Render(spelled.result) ELSE Error("parse"))

\* C26: a Like whose right side is a Regexp leaf renders without the
\* slashes of the pattern in both modes: "col" ~ 'pattern' in literal mode,
\* "col" ~ $1 with the bare pattern as parameter in parameterized mode, while
\* the leaf of the tree keeps its slashes.  Stated for a tree that is one
\* such Like over a column name without ? and double quote.
C26_RegexpRendersBare ==
    LET col == result.left.left.s
        text == result.right.left.s
        pattern == SubSeq(text, 2, Len(text) - 1)
        quoted == <<"\"">> \o col \o <<"\"">>
        regexpLike ==
            /\ pc = "valid" /\ result.op = "Like" /\ result.right.op = "Regexp"
            /\ isColumn(result.left.left) /\ col # <<>> /\ ~ContainsAny(col, {"?", "\""})
    IN  regexpLike =>
            /\ text[1] = "/" /\ text[Len(text)] = "/"
            /\ sql # None => sql = Ok(quoted \o <<" ", "~", " ", "'">> \o pattern \o <<"'">>, <<>>)
            /\ psql # None => psql = Ok(quoted \o <<" ", "~", " ", "$", "1">>, <<StrV(pattern)>>)

\* C27: decoding a Range from JSON gives an inclusive range unless the
\* "inclusive" field of its boundary is false; a boundary with min and max
\* and no "inclusive" key decodes to an inclusive range.
C27_RangeDecodesInclusiveByDefault ==
    LET doc == decoded.document
        rangeText ==
            /\ decoded # None
            /\ doc.kind = "jobj" /\ doc.right # Nil /\ doc.right.kind = "jbound"
            /\ IsExpr(decoded.tree) /\ decoded.tree.op = "Range"
    IN  rangeText =>
            /\ decoded.tree.right.kind = "boundary"
            /\ decoded.tree.right.inclusive = (doc.right.inclusive # "false")

\* C28: for every tree t that Parse returns, the short printed form
\* t.String() is a query that parses, and it parses to a tree equal to t.
C28_PrintedFormReparses ==
    LET again == Parse(Tokens(Lex(String(result)), <<>>), defaultField)
    IN  pc = "valid" => (again.pc = "parsed" /\ again.result = result)

\* C29: Parse never aborts: at every step of the shift/reduce loop the
\* non-terminal stack has the Start sentinel at its bottom, so reading its
\* top and dropping the terminals a reducer consumed stay in bounds, and
\* Parse ends with a tree or with an error, not with a panic.
C29_ParseNeverAborts ==
    /\ pc # "panic"
    /\ Len(nonTerminals) >= 1
    /\ nonTerminals[1].typ = "TStart"
    /\ pc \in {"parsed", "valid"} => IsExpr(result)
    /\ pc = "error" => result = Nil

\* C30: rendering never aborts: for every query that parses, ToPostgres
\* and ToParameterizedPostgres each return a result or an error, also for
\* a Like pattern and for range bounds that add no parameter (the value
\* *, a range with * on both sides).
C30_RenderNeverAborts ==
    /\ sql # None => sql.st \in {"ok", "err"}
    /\ psql # None => psql.st \in {"ok", "err"}

====
